---- MODULE Spec2Model ----
(***************************************************************************)
(* Model of the site audit engine (src/audit.py): link resolution, the     *)
(* on-disk existence check, the scan / orphan / external-check phases of   *)
(* main(), the ThreadPoolExecutor based external link checker and the      *)
(* AuditResult score keeping.                                              *)
(*                                                                         *)
(* Text is modelled as a sequence of one-character strings, so that        *)
(* prefix, suffix, split and strip are computed as Python computes them.   *)
(* The alphabet used by the modelled hrefs has no ';', no whitespace and   *)
(* no upper-case letter.                                                   *)
(***************************************************************************)
EXTENDS Integers, Sequences, FiniteSets, TLC

\* ------------------------------------------------------------------------
\* Python str operations
\* ------------------------------------------------------------------------

StartsWith(s, p) == Len(s) >= Len(p) /\ SubSeq(s, 1, Len(p)) = p

EndsWith(s, p) == Len(s) >= Len(p) /\ SubSeq(s, Len(s) - Len(p) + 1, Len(s)) = p

\* s.find(c) + 1 for a one-character c: 0 when c does not occur
Find(s, c) ==
    IF \E i \in 1..Len(s) : s[i] = c
    THEN CHOOSE i \in 1..Len(s) : s[i] = c /\ \A j \in 1..(i - 1) : s[j] # c
    ELSE 0

\* sub in s
Contains(s, sub) ==
    \E i \in 1..(Len(s) - Len(sub) + 1) : SubSeq(s, i, i + Len(sub) - 1) = sub

\* s.split(c); SplitAt is given i = s.find(c) + 1
RECURSIVE Split(_, _)
SplitAt(s, c, i) ==
    IF i = 0 THEN <<s>>
    ELSE <<SubSeq(s, 1, i - 1)>> \o Split(SubSeq(s, i + 1, Len(s)), c)

Split(s, c) == SplitAt(s, c, Find(s, c))

\* c.join(segs)
RECURSIVE Join(_, _)
Join(segs, c) ==
    IF Len(segs) = 0 THEN <<>>
    ELSE IF Len(segs) = 1 THEN segs[1]
    ELSE segs[1] \o <<c>> \o Join(Tail(segs), c)

\* s.lstrip(c)
RECURSIVE LStrip(_, _)
LStrip(s, c) == IF Len(s) > 0 /\ s[1] = c THEN LStrip(Tail(s), c) ELSE s

\* s.rstrip(c)
RECURSIVE RStrip(_, _)
RStrip(s, c) ==
    IF Len(s) > 0 /\ s[Len(s)] = c THEN RStrip(SubSeq(s, 1, Len(s) - 1), c) ELSE s

\* s[:-1]
DropLast(s) == SubSeq(s, 1, Len(s) - 1)

\* str.replace(old, new) for one-character old and new
Replace(s, old, new) == [i \in 1..Len(s) |-> IF s[i] = old THEN new ELSE s[i]]

\* s.split('#')[0].split('?')[0]
StripQueryFragment(s) == Split(Split(s, "#")[1], "?")[1]

\* ------------------------------------------------------------------------
\* Literals
\* ------------------------------------------------------------------------

Slash == <<"/">>
Dot == <<".">>
DotDot == <<".", ".">>
DotHtml == <<".", "h", "t", "m", "l">>
IndexHtml == <<"i", "n", "d", "e", "x">> \o DotHtml
Http == <<"h", "t", "t", "p">>
DummyHost == <<"d", "u", "m", "m", "y", ".", "c", "o", "m">>

Letters ==
    {"a", "b", "c", "d", "e", "f", "g", "h", "i", "j", "k", "l", "m",
     "n", "o", "p", "q", "r", "s", "t", "u", "v", "w", "x", "y", "z"}

\* urllib.parse.scheme_chars restricted to the alphabet
scheme_chars == Letters \cup {"0", "1", "2", "3", "4", "5", "6", "7", "8", "9", "+", "-", "."}

\* urllib.parse.uses_relative and uses_netloc, restricted to the schemes
\* that can be spelled by the modelled hrefs
uses_relative ==
    {<<>>, Http, Http \o <<"s">>, <<"f", "t", "p">>, <<"f", "i", "l", "e">>}

uses_netloc == uses_relative

\* ------------------------------------------------------------------------
\* urllib.parse as used by is_external and normalize_local_url
\* ------------------------------------------------------------------------

\* urlsplit: 1-based position of the ':' that ends a scheme, 0 when the
\* text before the first ':' is not a scheme
SchemeEnd(url) ==
    LET At(i) == IF /\ i > 1
                    /\ url[1] \in Letters
                    /\ \A j \in 1..(i - 1) : url[j] \in scheme_chars
                 THEN i ELSE 0
    IN  At(Find(url, ":"))

\* _splitnetloc(url, 2): position of the first of '/?#' at or after
\* position 3, Len(url) + 1 when there is none
NetlocEnd(url) ==
    LET First(D) == IF D = {} THEN Len(url) + 1 ELSE CHOOSE i \in D : \A j \in D : i <= j
    IN  First({i \in 3..Len(url) : url[i] \in {"/", "?", "#"}})

\* ipaddress: the decimal digits in order, and _BaseV6._HEX_DIGITS
DecimalDigits == <<"0", "1", "2", "3", "4", "5", "6", "7", "8", "9">>

HEX_DIGITS ==
    {DecimalDigits[i] : i \in 1..10}
    \cup {"a", "b", "c", "d", "e", "f", "A", "B", "C", "D", "E", "F"}

\* int(octet_str, 10) for a string of decimal digits
RECURSIVE DecimalValue(_)
DecimalValue(digits) ==
    IF digits = <<>> THEN 0
    ELSE 10 * DecimalValue(SubSeq(digits, 1, Len(digits) - 1))
         + (CHOOSE i \in 1..10 : DecimalDigits[i] = digits[Len(digits)]) - 1

\* _BaseV4._parse_octet(octet_str) raises ValueError
parse_octet_raises(octet_str) ==
    \/ octet_str = <<>>
    \/ \E i \in 1..Len(octet_str) : \A d \in 1..10 : octet_str[i] # DecimalDigits[d]
    \/ Len(octet_str) > 3
    \/ octet_str # <<"0">> /\ octet_str[1] = "0"
    \/ DecimalValue(octet_str) > 255

\* IPv4Address(address) raises AddressValueError
IPv4Address_raises(address) ==
    LET Octets(octets) ==
            Len(octets) # 4 \/ \E i \in 1..4 : parse_octet_raises(octets[i])
    IN  Contains(address, Slash) \/ address = <<>> \/ Octets(Split(address, "."))

\* _BaseV6._parse_hextet(hextet_str) raises ValueError: a character that is
\* no hex digit, more than 4 characters, or int('', 16)
parse_hextet_raises(hextet_str) ==
    \/ \E i \in 1..Len(hextet_str) : hextet_str[i] \notin HEX_DIGITS
    \/ Len(hextet_str) > 4
    \/ hextet_str = <<>>

\* _BaseV6._ip_int_from_string(ip_str) raises AddressValueError, in the
\* order of the source: fewer than 3 parts, a bad IPv4 suffix, more than 9
\* parts, more than one '::', a single ':' at an end, too many parts beside
\* the '::' or not 8 parts without it, a bad hextet.  The two hextets
\* that replace a valid IPv4 suffix are written as '0': '%x' gives one to
\* four hex digits, which _parse_hextet accepts whatever their value.
ip_int_from_string_raises(ip_str) ==
    \/ ip_str = <<>>
    \/ \E split \in {Split(ip_str, ":")} :
          \/ Len(split) < 3
          \/ Contains(split[Len(split)], Dot) /\ IPv4Address_raises(split[Len(split)])
          \/ \E parts \in {IF Contains(split[Len(split)], Dot)
                            THEN SubSeq(split, 1, Len(split) - 1) \o <<<<"0">>, <<"0">>>>
                            ELSE split} :
                \/ Len(parts) > 9
                \/ \E skips \in {{i \in 2..(Len(parts) - 1) : parts[i] = <<>>}} :
                      \/ Cardinality(skips) > 1
                      \/ /\ skips = {}
                         /\ \/ Len(parts) # 8
                            \/ parts[1] = <<>>
                            \/ parts[Len(parts)] = <<>>
                            \/ \E i \in 1..Len(parts) : parse_hextet_raises(parts[i])
                      \/ \E skip_index \in skips :
                         \E parts_hi \in {IF parts[1] = <<>> THEN skip_index - 2
                                          ELSE skip_index - 1} :
                         \E parts_lo \in {IF parts[Len(parts)] = <<>>
                                          THEN Len(parts) - skip_index - 1
                                          ELSE Len(parts) - skip_index} :
                            \/ parts[1] = <<>> /\ parts_hi # 0
                            \/ parts[Len(parts)] = <<>> /\ parts_lo # 0
                            \/ 8 - (parts_hi + parts_lo) < 1
                            \/ \E i \in (1..parts_hi)
                                         \cup ((Len(parts) - parts_lo + 1)..Len(parts)) :
                                  parse_hextet_raises(parts[i])

\* IPv6Address(address) raises AddressValueError; _split_scope_id cuts
\* the address at the first '%' and rejects an empty scope id and a second '%'
IPv6Address_raises(address) ==
    LET Scoped(p) ==
            \/ p > 0 /\ p = Len(address)
            \/ p > 0 /\ Contains(SubSeq(address, p + 1, Len(address)), <<"%">>)
            \/ ip_int_from_string_raises(IF p = 0 THEN address
                                         ELSE SubSeq(address, 1, p - 1))
    IN  Contains(address, Slash) \/ Scoped(Find(address, "%"))

\* urllib.parse._check_bracketed_host(hostname) raises ValueError: an
\* IPvFuture address must match v[a-fA-F0-9]+\..+ , every other host must
\* be an address for ipaddress.ip_address (IPv4Address is tried first,
\* then IPv6Address) and must not be an IPv4 address
check_bracketed_host_raises(hostname) ==
    LET Future(p) ==
            ~(/\ p >= 3
              /\ \A i \in 2..(p - 1) : hostname[i] \in HEX_DIGITS
              /\ Len(hostname) > p)
        Address(v4_raises) == ~v4_raises \/ IPv6Address_raises(hostname)
    IN  IF StartsWith(hostname, <<"v">>) THEN Future(Find(hostname, "."))
        ELSE Address(IPv4Address_raises(hostname))

\* netloc.partition('[')[2].partition(']')[0]
bracketed_host(netloc) ==
    LET Upto(rest, q) == IF q > 0 THEN SubSeq(rest, 1, q - 1) ELSE rest
        After(rest) == Upto(rest, Find(rest, "]"))
    IN  After(SubSeq(netloc, Find(netloc, "[") + 1, Len(netloc)))

\* urlsplit raises ValueError for the netloc: one of '[' and ']' without
\* the other ("Invalid IPv6 URL"), or both around a host that
\* _check_bracketed_host rejects
NetlocRaises(netloc) ==
    IF (Find(netloc, "[") > 0) # (Find(netloc, "]") > 0) THEN TRUE
    ELSE IF Find(netloc, "[") > 0 THEN check_bracketed_host_raises(bracketed_host(netloc))
    ELSE FALSE

\* the SplitResult(scheme, netloc, url, query, fragment) that urlsplit(url,
\* scheme=default) builds, in the order of the source: scheme, netloc,
\* fragment, query
SplitResult(url, default) ==
    LET Parts(scheme, netloc, r3, fragment, q) ==
            [scheme |-> scheme,
             netloc |-> netloc,
             path |-> IF q > 0 THEN SubSeq(r3, 1, q - 1) ELSE r3,
             query |-> IF q > 0 THEN SubSeq(r3, q + 1, Len(r3)) ELSE <<>>,
             fragment |-> fragment]
        AtQuery(scheme, netloc, r3, fragment) ==
            Parts(scheme, netloc, r3, fragment, Find(r3, "?"))
        AtFragment(scheme, netloc, r2, h) ==
            AtQuery(scheme, netloc,
                    IF h > 0 THEN SubSeq(r2, 1, h - 1) ELSE r2,
                    IF h > 0 THEN SubSeq(r2, h + 1, Len(r2)) ELSE <<>>)
        AfterNetloc(scheme, netloc, r2) == AtFragment(scheme, netloc, r2, Find(r2, "#"))
        AtNetloc(scheme, r1, d) ==
            IF StartsWith(r1, <<"/", "/">>)
            THEN AfterNetloc(scheme, SubSeq(r1, 3, d - 1), SubSeq(r1, d, Len(r1)))
            ELSE AfterNetloc(scheme, <<>>, r1)
        AfterScheme(scheme, r1) == AtNetloc(scheme, r1, NetlocEnd(r1))
        AtScheme(i) ==
            IF i > 0
            THEN AfterScheme(SubSeq(url, 1, i - 1), SubSeq(url, i + 1, Len(url)))
            ELSE AfterScheme(default, url)
    IN  AtScheme(SchemeEnd(url))

\* urlsplit(url, scheme=default): err is the ValueError raised for the
\* netloc, the other fields are those of the SplitResult
Urlsplit(url, default) ==
    LET Checked(v) == [f \in {"err"} |-> NetlocRaises(v.netloc)] @@ v
    IN  Checked(SplitResult(url, default))

\* urlunsplit((scheme, netloc, url, query, fragment))
Urlunsplit(scheme, netloc, path, query, fragment) ==
    LET WithFragment(u) == IF fragment # <<>> THEN u \o <<"#">> \o fragment ELSE u
        WithQuery(u) == WithFragment(IF query # <<>> THEN u \o <<"?">> \o query ELSE u)
        WithScheme(u) == WithQuery(IF scheme # <<>> THEN scheme \o <<":">> \o u ELSE u)
    IN  WithScheme(
            IF netloc # <<>>
               \/ (scheme # <<>> /\ scheme \in uses_netloc /\ ~StartsWith(path, <<"/", "/">>))
            THEN <<"/", "/">> \o netloc
                 \o (IF path # <<>> /\ path[1] # "/" THEN Slash \o path ELSE path)
            ELSE path)

\* segments[1:-1] = filter(None, segments[1:-1])
FilterMiddle(segs) ==
    IF Len(segs) < 3 THEN segs
    ELSE <<segs[1]>>
         \o SelectSeq(SubSeq(segs, 2, Len(segs) - 1), LAMBDA x : x # <<>>)
         \o <<segs[Len(segs)]>>

\* the loop of urljoin that resolves '.' and '..'
RECURSIVE ResolveSegments(_, _)
ResolveSegments(resolved, segs) ==
    IF segs = <<>> THEN resolved
    ELSE IF Head(segs) = DotDot
    THEN ResolveSegments(IF resolved = <<>> THEN resolved ELSE DropLast(resolved), Tail(segs))
    ELSE IF Head(segs) = Dot THEN ResolveSegments(resolved, Tail(segs))
    ELSE ResolveSegments(Append(resolved, Head(segs)), Tail(segs))

\* urljoin(base, url)
Urljoin(base, url) ==
    LET Unparse(u, netloc, joined) ==
            Urlunsplit(u.scheme, netloc, IF joined = <<>> THEN Slash ELSE joined,
                       u.query, u.fragment)
        Resolved(u, netloc, segments, resolved0) ==
            Unparse(u, netloc,
                    Join(IF segments[Len(segments)] \in {Dot, DotDot}
                         THEN Append(resolved0, <<>>) ELSE resolved0, "/"))
        WithSegments(u, netloc, segments) ==
            Resolved(u, netloc, segments, ResolveSegments(<<>>, segments))
        WithBaseParts(u, netloc, base_parts) ==
            WithSegments(u, netloc,
                         IF StartsWith(u.path, Slash) THEN Split(u.path, "/")
                         ELSE FilterMiddle(
                                 (IF base_parts[Len(base_parts)] # <<>>
                                  THEN DropLast(base_parts) ELSE base_parts)
                                 \o Split(u.path, "/")))
        Joined(b, u) ==
            IF u.scheme # b.scheme \/ u.scheme \notin uses_relative THEN url
            ELSE IF u.scheme \in uses_netloc /\ u.netloc # <<>>
            THEN Urlunsplit(u.scheme, u.netloc, u.path, u.query, u.fragment)
            ELSE IF u.path = <<>>
            THEN Urlunsplit(u.scheme,
                            IF u.scheme \in uses_netloc THEN b.netloc ELSE u.netloc,
                            b.path,
                            IF u.query = <<>> THEN b.query ELSE u.query, u.fragment)
            ELSE WithBaseParts(u,
                               IF u.scheme \in uses_netloc THEN b.netloc ELSE u.netloc,
                               Split(b.path, "/"))
        WithBase(b) == Joined(b, SplitResult(url, b.scheme))
    IN  IF base = <<>> THEN url
        ELSE IF url = <<>> THEN base
        ELSE WithBase(SplitResult(base, <<>>))

\* ------------------------------------------------------------------------
\* Helper functions of audit.py
\* ------------------------------------------------------------------------

\* is_external(url): bool(urlparse(url).netloc)
is_external(url) == SplitResult(url, <<>>).netloc # <<>>

\* urlparse(url) raises ValueError
UrlparseRaises(url) == Urlsplit(url, <<>>).err

\* os.path.dirname of a relative path
Dirname(rel) ==
    LET Of(parts) ==
            IF Len(parts) = 1 THEN <<>> ELSE RStrip(Join(DropLast(parts), "/"), "/")
    IN  Of(Split(rel, "/"))

\* os.path.basename
Basename(rel) == LET Of(parts) == parts[Len(parts)] IN Of(Split(rel, "/"))

\* normalize_local_url that concatenates the directory and the href
\* without resolving the dot segments
normalize_local_url_concat(url, rel_path) ==
    IF StartsWith(url, Slash) THEN url
    ELSE Slash \o Dirname(rel_path) \o Slash \o StripQueryFragment(url)

\* normalize_local_url that puts the href of a page of the root directory
\* behind '/' as it is
normalize_local_url_root_concat(url, rel_path) ==
    LET In(rel_dir) ==
            IF rel_dir = <<>> THEN Slash \o url
            ELSE SplitResult(Urljoin(Http \o <<":", "/", "/">> \o DummyHost
                                     \o Slash \o rel_dir \o Slash, url), <<>>).path
    IN  IF StartsWith(url, Slash) THEN url ELSE In(Dirname(rel_path))

\* normalize_local_url(url, current_file_path); the page is given by its
\* path relative to Config.ROOT_DIR
normalize_local_url(url, rel_path) ==
    LET In(rel_dir) ==
            IF rel_dir = Dot THEN Slash \o url
            ELSE SplitResult(Urljoin(Http \o <<":", "/", "/">> \o DummyHost
                                     \o Slash \o rel_dir \o Slash, url), <<>>).path
    IN  IF StartsWith(url, Slash) THEN url ELSE In(Dirname(rel_path))

\* ------------------------------------------------------------------------
\* The file system.  A disk is the working directory of the run (root, the
\* value of Config.ROOT_DIR = os.getcwd()) and a set of regular files, each
\* an absolute path given as the sequence of its names; the directories
\* are the proper prefixes of the files and the root with its ancestors.
\* ------------------------------------------------------------------------

\* the names of an absolute path
NamesOf(path) == SelectSeq(Split(path, "/"), LAMBDA n : n # <<>>)

IsFile(disk, p) == p \in disk.files

IsDir(disk, p) ==
    \/ Len(p) <= Len(NamesOf(disk.root)) /\ SubSeq(NamesOf(disk.root), 1, Len(p)) = p
    \/ \E f \in disk.files : Len(f) > Len(p) /\ SubSeq(f, 1, Len(p)) = p

\* path resolution of the operating system, name by name
RECURSIVE Lookup(_, _, _)
Lookup(disk, cur, names) ==
    LET Step(n, rest) ==
            IF n = <<>> \/ n = Dot THEN Lookup(disk, cur, rest)
            ELSE IF n = DotDot
            THEN Lookup(disk, IF cur = <<>> THEN cur ELSE DropLast(cur), rest)
            ELSE IF IsFile(disk, Append(cur, n)) \/ IsDir(disk, Append(cur, n))
            THEN Lookup(disk, Append(cur, n), rest)
            ELSE [ok |-> FALSE, at |-> cur]
    IN  IF names = <<>> THEN [ok |-> TRUE, at |-> cur]
        ELSE IF ~IsDir(disk, cur) THEN [ok |-> FALSE, at |-> cur]
        ELSE Step(Head(names), Tail(names))

\* os.path.exists(path) for an absolute path
OsPathExists(disk, path) == Lookup(disk, <<>>, Split(path, "/")).ok

\* os.path.isfile(path)
OsPathIsFile(disk, path) ==
    LET Is(r) == r.ok /\ IsFile(disk, r.at) IN Is(Lookup(disk, <<>>, Split(path, "/")))

\* os.path.join(a, b) for a relative b
OsPathJoin(a, b) ==
    IF a = <<>> \/ EndsWith(a, Slash) THEN a \o b ELSE a \o Slash \o b

\* check_local_file_exists that keeps the trailing slash
check_local_file_exists_unstripped(disk, url_path0) ==
    LET Cases(stripped) ==
            \/ OsPathExists(disk, OsPathJoin(disk.root, stripped \o DotHtml))
            \/ OsPathExists(disk, OsPathJoin(OsPathJoin(disk.root, stripped), IndexHtml))
            \/ (/\ OsPathExists(disk, OsPathJoin(disk.root, stripped))
                /\ OsPathIsFile(disk, OsPathJoin(disk.root, stripped)))
        Stripped(url_path) ==
            IF url_path = <<>> THEN OsPathExists(disk, OsPathJoin(disk.root, IndexHtml))
            ELSE Cases(LStrip(url_path, "/"))
    IN  Stripped(StripQueryFragment(url_path0))

\* check_local_file_exists(url_path)
check_local_file_exists(disk, url_path0) ==
    LET Cases(stripped) ==
            \/ OsPathExists(disk, OsPathJoin(disk.root, stripped \o DotHtml))
            \/ OsPathExists(disk, OsPathJoin(OsPathJoin(disk.root, stripped), IndexHtml))
            \/ (/\ OsPathExists(disk, OsPathJoin(disk.root, stripped))
                /\ OsPathIsFile(disk, OsPathJoin(disk.root, stripped)))
        Stripped(url_path) ==
            IF url_path = <<>> THEN OsPathExists(disk, OsPathJoin(disk.root, IndexHtml))
            ELSE Cases(LStrip(url_path, "/"))
        Cleaned(p1) == Stripped(IF EndsWith(p1, Slash) THEN DropLast(p1) ELSE p1)
    IN  Cleaned(StripQueryFragment(url_path0))

\* the clean_path computed by process_internal_link for the inbound count
clean_path(abs_path) ==
    LET Rooted(c2) == IF c2 = <<>> THEN Slash ELSE c2
        Trimmed(c1) == Rooted(IF c1 # Slash /\ EndsWith(c1, Slash) THEN DropLast(c1) ELSE c1)
    IN  Trimmed(StripQueryFragment(abs_path))

\* ------------------------------------------------------------------------
\* Configuration and constants of audit.py
\* ------------------------------------------------------------------------

IGNORE_PATHS ==
    {<<".", "g", "i", "t">>, <<"e", "n", "v">>, <<"v", "e", "n", "v">>,
     <<"n", "o", "d", "e", "_", "m", "o", "d", "u", "l", "e", "s">>,
     <<"_", "_", "p", "y", "c", "a", "c", "h", "e", "_", "_">>,
     <<".", "v", "s", "c", "o", "d", "e">>, <<".", "i", "d", "e", "a">>}

IGNORE_URL_PREFIXES ==
    {<<"/", "g", "o", "/">>, <<"c", "d", "n", "-", "c", "g", "i">>,
     <<"j", "a", "v", "a", "s", "c", "r", "i", "p", "t", ":">>,
     <<"m", "a", "i", "l", "t", "o", ":">>, <<"t", "e", "l", ":">>, <<"#">>}

IGNORE_FILES == {<<"g", "o", "o", "g", "l", "e">>, <<"4", "0", "4">> \o DotHtml}

\* is_ignored_path(path): path.split(os.sep) meets IGNORE_PATHS
is_ignored_path(path) == \E i \in 1..Len(Split(path, "/")) : Split(path, "/")[i] \in IGNORE_PATHS

\* is_ignored_file that tests the suffix only
is_ignored_file_suffix_only(filename) == ~EndsWith(filename, DotHtml)

\* is_ignored_file(filename)
is_ignored_file(filename) ==
    (\E ig \in IGNORE_FILES : Contains(filename, ig)) \/ ~EndsWith(filename, DotHtml)

Max(a, b) == IF a >= b THEN a ELSE b

\* ------------------------------------------------------------------------
\* AuditResult.  A state of the score keeper is the pair of the AuditResult
\* (r) and the sum of the penalties passed to add_error / add_warning (a),
\* which the program does not store.
\* ------------------------------------------------------------------------

\* AuditResult.__init__
AuditResultInit ==
    [score |-> 100, errors |-> <<>>, warnings |-> <<>>, infos |-> <<>>,
     inbound_links |-> <<>>, external_links |-> {}, pages_scanned |-> 0]

\* a message: the format string used (kind) and the values formatted into it
Msg(kind, page, href, abs, status, reason) ==
    [kind |-> kind, page |-> page, href |-> href, abs |-> abs,
     status |-> status, reason |-> reason]

\* add_error without the floor at 0
add_error_unfloored(s, msg, penalty) ==
    [r |-> [s.r EXCEPT !.errors = Append(@, msg), !.score = @ - penalty],
     a |-> s.a + penalty]

\* AuditResult.add_error(msg, penalty)
add_error(s, msg, penalty) ==
    [r |-> [s.r EXCEPT !.errors = Append(@, msg), !.score = Max(0, @ - penalty)],
     a |-> s.a + penalty]

\* add_warning with the sign of the penalty flipped
add_warning_raising(s, msg, penalty) ==
    [r |-> [s.r EXCEPT !.warnings = Append(@, msg), !.score = Max(0, @ + penalty)],
     a |-> s.a + penalty]

\* AuditResult.add_warning(msg, penalty)
add_warning(s, msg, penalty) ==
    [r |-> [s.r EXCEPT !.warnings = Append(@, msg), !.score = Max(0, @ - penalty)],
     a |-> s.a + penalty]

\* AuditResult.add_info(msg)
add_info(s, msg) == [r |-> [s.r EXCEPT !.infos = Append(@, msg)], a |-> s.a]

\* defaultdict(int) read without insertion: inbound_links.get(p, 0)
InboundGet(r, p) == IF p \in DOMAIN r.inbound_links THEN r.inbound_links[p] ELSE 0

\* increment that counts only the path that was recorded first
InboundIncrement_first_only(r, p) ==
    IF DOMAIN r.inbound_links \subseteq {p}
    THEN [r EXCEPT !.inbound_links = [x \in {p} |-> InboundGet(r, p) + 1]]
    ELSE r

\* inbound_links[clean_path] += 1 on a defaultdict(int)
InboundIncrement(r, p) ==
    [r EXCEPT !.inbound_links =
        [k \in (DOMAIN @) \cup {p} |->
            IF k = p THEN (IF p \in DOMAIN @ THEN @[p] ELSE 0) + 1 ELSE @[k]]]

\* ------------------------------------------------------------------------
\* PageAuditor
\* ------------------------------------------------------------------------

\* PageAuditor.check_h1 for a page with h1 headings counted h1
check_h1(s, rel_path, h1) ==
    IF h1 = 0
    THEN add_error(s, Msg("Missing H1 tag", rel_path, <<>>, <<>>, 0, ""), 5)
    ELSE IF h1 > 1
    THEN add_warning(s, Msg("Multiple H1 tags", rel_path, <<>>, <<>>, h1, ""), 0)
    ELSE s

\* PageAuditor.check_schema
check_schema(s, rel_path, schema) ==
    IF ~schema
    THEN add_warning(s, Msg("No Schema (JSON-LD) found", rel_path, <<>>, <<>>, 0, ""), 2)
    ELSE s

\* check_breadcrumb that warns about every page without a marker
check_breadcrumb_all_pages(s, rel_path, has_breadcrumb) ==
    IF ~has_breadcrumb
    THEN add_warning(s, Msg("No Breadcrumb found in deep page", rel_path, <<>>, <<>>, 0, ""), 0)
    ELSE s

\* PageAuditor.check_breadcrumb
check_breadcrumb(s, rel_path, has_breadcrumb) ==
    IF rel_path = IndexHtml THEN s
    ELSE IF ~has_breadcrumb /\ Contains(Replace(rel_path, "\\", "/"), Slash)
    THEN add_warning(s, Msg("No Breadcrumb found in deep page", rel_path, <<>>, <<>>, 0, ""), 0)
    ELSE s

\* normalize_local_url raises the ValueError of urlparse (inside urljoin)
NormalizeRaises(url) == ~StartsWith(url, Slash) /\ Urlsplit(url, Http).err

\* process_internal_link that reports a dead link of a page only once
process_internal_link_once(s, disk, rel_path, raw_href) ==
    LET Report(s2, msg) ==
            IF \E i \in 1..Len(s2.r.errors) : s2.r.errors[i] = msg THEN s2
            ELSE add_error(s2, msg, 10)
        Resolved(s2, abs_path) ==
            IF NormalizeRaises(raw_href) THEN [raised |-> TRUE, s |-> s2]
            ELSE IF ~check_local_file_exists(disk, abs_path)
            THEN [raised |-> FALSE,
                  s |-> Report(s2, Msg("Dead Internal Link", rel_path, raw_href,
                                       abs_path, 0, ""))]
            ELSE [raised |-> FALSE,
                  s |-> [s2 EXCEPT !.r = InboundIncrement(@, clean_path(abs_path))]]
        RelativeChecked(s2) == Resolved(s2, normalize_local_url(raw_href, rel_path))
        CleanChecked(s1) ==
            RelativeChecked(
                IF ~StartsWith(raw_href, Slash)
                THEN add_warning(s1, Msg("Relative path used", rel_path, raw_href,
                                         <<>>, 0, ""), 2)
                ELSE s1)
    IN  CleanChecked(
            IF EndsWith(raw_href, DotHtml) /\ Basename(raw_href) # IndexHtml
            THEN add_warning(s, Msg("Link with .html extension", rel_path, raw_href,
                                    <<>>, 0, ""), 2)
            ELSE s)

\* process_internal_link that counts a dead link as an inbound link too
process_internal_link_counting_dead(s, disk, rel_path, raw_href) ==
    LET Resolved(s2, abs_path) ==
            IF NormalizeRaises(raw_href) THEN [raised |-> TRUE, s |-> s2]
            ELSE IF ~check_local_file_exists(disk, abs_path)
            THEN [raised |-> FALSE,
                  s |-> add_error([s2 EXCEPT !.r = InboundIncrement(@, clean_path(abs_path))],
                                  Msg("Dead Internal Link", rel_path, raw_href,
                                      abs_path, 0, ""), 10)]
            ELSE [raised |-> FALSE,
                  s |-> [s2 EXCEPT !.r = InboundIncrement(@, clean_path(abs_path))]]
        RelativeChecked(s2) == Resolved(s2, normalize_local_url(raw_href, rel_path))
        CleanChecked(s1) ==
            RelativeChecked(
                IF ~StartsWith(raw_href, Slash)
                THEN add_warning(s1, Msg("Relative path used", rel_path, raw_href,
                                         <<>>, 0, ""), 2)
                ELSE s1)
    IN  CleanChecked(
            IF EndsWith(raw_href, DotHtml) /\ Basename(raw_href) # IndexHtml
            THEN add_warning(s, Msg("Link with .html extension", rel_path, raw_href,
                                    <<>>, 0, ""), 2)
            ELSE s)

\* PageAuditor.process_internal_link(raw_href) on the page rel_path; the
\* result has raised = TRUE when normalize_local_url raises
process_internal_link(s, disk, rel_path, raw_href) ==
    LET Resolved(s2, abs_path) ==
            IF NormalizeRaises(raw_href) THEN [raised |-> TRUE, s |-> s2]
            ELSE IF ~check_local_file_exists(disk, abs_path)
            THEN [raised |-> FALSE,
                  s |-> add_error(s2, Msg("Dead Internal Link", rel_path, raw_href,
                                          abs_path, 0, ""), 10)]
            ELSE [raised |-> FALSE,
                  s |-> [s2 EXCEPT !.r = InboundIncrement(@, clean_path(abs_path))]]
        RelativeChecked(s2) == Resolved(s2, normalize_local_url(raw_href, rel_path))
        CleanChecked(s1) ==
            RelativeChecked(
                IF ~StartsWith(raw_href, Slash)
                THEN add_warning(s1, Msg("Relative path used", rel_path, raw_href,
                                         <<>>, 0, ""), 2)
                ELSE s1)
    IN  CleanChecked(
            IF EndsWith(raw_href, DotHtml) /\ Basename(raw_href) # IndexHtml
            THEN add_warning(s, Msg("Link with .html extension", rel_path, raw_href,
                                    <<>>, 0, ""), 2)
            ELSE s)

\* the href that check_links hands to process_internal_link for an href
\* with a netloc that starts with Config.BASE_URL
OwnPath(base_url, raw_href) ==
    IF Len(raw_href) = Len(base_url) THEN Slash
    ELSE SubSeq(raw_href, Len(base_url) + 1, Len(raw_href))

\* PageAuditor.check_links, one iteration of its loop over the anchors; the
\* result has raised = TRUE when urlparse raises (inside is_external or
\* normalize_local_url)
check_link(s, disk, base_url, rel_path, raw_href) ==
    IF \E pre \in IGNORE_URL_PREFIXES : StartsWith(raw_href, pre)
    THEN [raised |-> FALSE, s |-> s]
    ELSE IF UrlparseRaises(raw_href)
    THEN [raised |-> TRUE, s |-> s]
    ELSE IF is_external(raw_href)
    THEN IF base_url # <<>> /\ StartsWith(raw_href, base_url)
         THEN process_internal_link(
                  add_warning(s, Msg("Internal link using full URL", rel_path,
                                     raw_href, <<>>, 0, ""), 2),
                  disk, rel_path, OwnPath(base_url, raw_href))
         ELSE [raised |-> FALSE,
               s |-> [s EXCEPT !.r.external_links = @ \cup {raw_href}]]
    ELSE process_internal_link(s, disk, rel_path, raw_href)

\* the local variables of the call of process_internal_link made by one
\* iteration of check_links (called = FALSE when it made none, or when
\* normalize_local_url raised)
LinkLocals(disk, base_url, rel_path, raw_href) ==
    LET None == [called |-> FALSE, page |-> rel_path, href |-> raw_href, abs |-> <<>>,
                 exists |-> FALSE]
        Resolved(href, abs) ==
            [called |-> TRUE, page |-> rel_path, href |-> href, abs |-> abs,
             exists |-> check_local_file_exists(disk, abs)]
        Called(href) ==
            IF NormalizeRaises(href) THEN None
            ELSE Resolved(href, normalize_local_url(href, rel_path))
    IN  IF \E pre \in IGNORE_URL_PREFIXES : StartsWith(raw_href, pre) THEN None
        ELSE IF UrlparseRaises(raw_href) THEN None
        ELSE IF is_external(raw_href)
        THEN IF base_url # <<>> /\ StartsWith(raw_href, base_url)
             THEN Called(OwnPath(base_url, raw_href))
             ELSE None
        ELSE Called(raw_href)

NoLink == [called |-> FALSE, page |-> <<>>, href |-> <<>>, abs |-> <<>>, exists |-> FALSE]

\* ------------------------------------------------------------------------
\* main(): the directory walk and the orphan check
\* ------------------------------------------------------------------------

\* the absolute path string of a sequence of names
AbsPath(names) == Slash \o Join(names, "/")

\* os.path.relpath(file_path, Config.ROOT_DIR) of a file below the root
RelPath(disk, f) == Join(SubSeq(f, Len(NamesOf(disk.root)) + 1, Len(f)), "/")

\* the regular files and the subdirectories that os.walk lists in dir
FilesIn(disk, dir) == {f \in disk.files : DropLast(f) = dir}

SubdirsOf(disk, dir) ==
    {SubSeq(f, 1, Len(dir) + 1) :
        f \in {g \in disk.files : Len(g) > Len(dir) + 1 /\ SubSeq(g, 1, Len(dir)) = dir}}

\* the orders in which a directory listing can enumerate a set
Perms(S) ==
    {q \in [1..Cardinality(S) -> S] : \A i, j \in 1..Cardinality(S) : i # j => q[i] # q[j]}

\* the values html_files can take: os.walk is top-down, lists every
\* directory in an order of the operating system's choosing, drops the
\* subdirectories for which is_ignored_path holds and keeps the files that
\* end in .html and are not ignored
RECURSIVE WalkOrders(_, _)
RECURSIVE WalkSubdirs(_, _)
WalkOrders(disk, dir) ==
    LET fs == {f \in FilesIn(disk, dir) :
                  EndsWith(f[Len(f)], DotHtml) /\ ~is_ignored_file(f[Len(f)])}
        ds == {d \in SubdirsOf(disk, dir) : ~is_ignored_path(AbsPath(d))}
    IN  UNION {UNION {{fq \o sub : sub \in WalkSubdirs(disk, dq)} : dq \in Perms(ds)}
               : fq \in Perms(fs)}

WalkSubdirs(disk, dseq) ==
    IF dseq = <<>> THEN {<<>>}
    ELSE UNION {{a \o b : b \in WalkSubdirs(disk, Tail(dseq))}
                : a \in WalkOrders(disk, Head(dseq))}

\* orphan loop that reads inbound_links by subscript: the defaultdict
\* inserts every missing key it is asked for with the count 0
orphan_check_inserting(s, rel_path) ==
    LET Read(r, keys) ==
            [r EXCEPT !.inbound_links =
                [x \in (DOMAIN @) \cup keys |-> IF x \in DOMAIN @ THEN @[x] ELSE 0]]
        Raw == Slash \o Replace(rel_path, "\\", "/")
        Judge(p) ==
            IF ~(InboundGet(s.r, p) > 0) /\ ~(InboundGet(s.r, Raw) > 0)
            THEN add_warning([s EXCEPT !.r = Read(@, {p, Raw})],
                             Msg("Orphan Page (No inbound links)", rel_path,
                                 <<>>, <<>>, 0, ""), 5)
            ELSE [s EXCEPT !.r = Read(@, {p, Raw})]
        Stripped(p) == Judge(IF p # Slash /\ EndsWith(p, Slash) THEN DropLast(p) ELSE p)
        Normalized(p0) == Stripped(Replace(p0, "\\", "/"))
        IndexForm(p0) == Normalized(IF p0 = <<"/", ".">> THEN Slash ELSE p0)
    IN  IF rel_path = IndexHtml THEN s
        ELSE IF EndsWith(rel_path, IndexHtml)
        THEN IndexForm(Slash \o Dirname(rel_path))
        ELSE Normalized(Slash \o SubSeq(rel_path, 1, Len(rel_path) - 5))

\* one iteration of the orphan loop of main() for the page rel_path
orphan_check(s, rel_path) ==
    LET Judge(p) ==
            IF /\ ~(InboundGet(s.r, p) > 0)
               /\ ~(InboundGet(s.r, Slash \o Replace(rel_path, "\\", "/")) > 0)
            THEN add_warning(s, Msg("Orphan Page (No inbound links)", rel_path,
                                    <<>>, <<>>, 0, ""), 5)
            ELSE s
        Stripped(p) == Judge(IF p # Slash /\ EndsWith(p, Slash) THEN DropLast(p) ELSE p)
        Normalized(p0) == Stripped(Replace(p0, "\\", "/"))
        IndexForm(p0) == Normalized(IF p0 = <<"/", ".">> THEN Slash ELSE p0)
    IN  IF rel_path = IndexHtml THEN s
        ELSE IF EndsWith(rel_path, IndexHtml)
        THEN IndexForm(Slash \o Dirname(rel_path))
        ELSE Normalized(Slash \o SubSeq(rel_path, 1, Len(rel_path) - 5))

\* ------------------------------------------------------------------------
\* ExternalLinkChecker
\* ------------------------------------------------------------------------

\* ThreadPoolExecutor(max_workers=10): the pool size of the source is 10;
\* the model runs a smaller pool so that more URLs than workers can be
\* submitted
max_workers == 2

\* check_one without the GET request after a 405 answer to HEAD
check_one_head_only(resp) ==
    IF resp.head.raises = "RequestException"
    THEN [exc |-> "", status |-> 999, msg |-> resp.head.raises, requests |-> <<"HEAD">>]
    ELSE IF resp.head.raises # ""
    THEN [exc |-> resp.head.raises, status |-> 0, msg |-> "", requests |-> <<"HEAD">>]
    ELSE [exc |-> "", status |-> resp.head.status, msg |-> "OK", requests |-> <<"HEAD">>]

\* check_one that sends the GET request after every HEAD answer of 400 or more
check_one_get_on_error(resp) ==
    IF resp.head.raises = "RequestException"
    THEN [exc |-> "", status |-> 999, msg |-> resp.head.raises, requests |-> <<"HEAD">>]
    ELSE IF resp.head.raises # ""
    THEN [exc |-> resp.head.raises, status |-> 0, msg |-> "", requests |-> <<"HEAD">>]
    ELSE IF resp.head.status >= 400
    THEN IF resp.get.raises = "RequestException"
         THEN [exc |-> "", status |-> 999, msg |-> resp.get.raises,
               requests |-> <<"HEAD", "GET">>]
         ELSE IF resp.get.raises # ""
         THEN [exc |-> resp.get.raises, status |-> 0, msg |-> "",
               requests |-> <<"HEAD", "GET">>]
         ELSE [exc |-> "", status |-> resp.get.status, msg |-> "OK",
               requests |-> <<"HEAD", "GET">>]
    ELSE [exc |-> "", status |-> resp.head.status, msg |-> "OK", requests |-> <<"HEAD">>]

\* ExternalLinkChecker.check_one(url) against the answers resp of the
\* network: the value or exception its future ends with, and the requests
\* it issued
check_one(resp) ==
    IF resp.head.raises = "RequestException"
    THEN [exc |-> "", status |-> 999, msg |-> resp.head.raises, requests |-> <<"HEAD">>]
    ELSE IF resp.head.raises # ""
    THEN [exc |-> resp.head.raises, status |-> 0, msg |-> "", requests |-> <<"HEAD">>]
    ELSE IF resp.head.status = 405
    THEN IF resp.get.raises = "RequestException"
         THEN [exc |-> "", status |-> 999, msg |-> resp.get.raises,
               requests |-> <<"HEAD", "GET">>]
         ELSE IF resp.get.raises # ""
         THEN [exc |-> resp.get.raises, status |-> 0, msg |-> "",
               requests |-> <<"HEAD", "GET">>]
         ELSE [exc |-> "", status |-> resp.get.status, msg |-> "OK",
               requests |-> <<"HEAD", "GET">>]
    ELSE [exc |-> "", status |-> resp.head.status, msg |-> "OK", requests |-> <<"HEAD">>]

\* loop body that records a future that raised in the except clause and
\* once more after it
collect_twice(dead_links, url, future) ==
    IF future.exc # ""
    THEN Append(Append(dead_links, [url |-> url, status |-> 0, reason |-> future.exc]),
                [url |-> url, status |-> 0, reason |-> future.exc])
    ELSE IF future.status >= 400
    THEN Append(dead_links, [url |-> url, status |-> future.status, reason |-> ""])
    ELSE dead_links

\* loop body that records the first dead link only
collect_first_only(dead_links, url, future) ==
    IF dead_links # <<>> THEN dead_links
    ELSE IF future.exc # ""
    THEN Append(dead_links, [url |-> url, status |-> 0, reason |-> future.exc])
    ELSE IF future.status >= 400
    THEN Append(dead_links, [url |-> url, status |-> future.status, reason |-> ""])
    ELSE dead_links

\* loop body whose except clause drops the dead links collected so far
collect_reset_on_raise(dead_links, url, future) ==
    IF future.exc # ""
    THEN <<[url |-> url, status |-> 0, reason |-> future.exc]>>
    ELSE IF future.status >= 400
    THEN Append(dead_links, [url |-> url, status |-> future.status, reason |-> ""])
    ELSE dead_links

\* the body of the as_completed loop of check_all for one finished future
collect(dead_links, url, future) ==
    IF future.exc # ""
    THEN Append(dead_links, [url |-> url, status |-> 0, reason |-> future.exc])
    ELSE IF future.status >= 400
    THEN Append(dead_links, [url |-> url, status |-> future.status, reason |-> ""])
    ELSE dead_links

\* AutoConfig.load: the Config.BASE_URL read from the head of index.html
ConfigBaseUrl(meta) ==
    IF meta.canonical # <<>> THEN RStrip(meta.canonical, "/")
    ELSE IF meta.og_url # <<>> THEN RStrip(meta.og_url, "/")
    ELSE <<>>

\* ------------------------------------------------------------------------
\* State
\* ------------------------------------------------------------------------

VARIABLES
    site,           \* the inputs of the run: disk, head of index.html, pages, network
    pc,             \* position of main(): start, walk, scan, orphan, external,
                    \* report, done, exit (sys.exit(1))
    base_url,       \* Config.BASE_URL
    html_files,     \* html_files of main(), as paths relative to ROOT_DIR
    idx,            \* position of the scan loop / orphan loop in html_files
    step,           \* position of PageAuditor.run: open, h1, schema, breadcrumb, links
    k,              \* position of check_links in the anchors of the page
    audit_result,   \* <<>> before AuditResult() is created, then <<the AuditResult>>
    applied,        \* sum of the penalties passed to add_error / add_warning
    link,           \* locals of the last process_internal_link call
    pool,           \* the executor of check_all and its futures
    dead_links,     \* dead_links of check_all, then dead_external of main()
    r_idx,          \* position of the loop over dead_external
    prev            \* the earlier runs of main() on this site: their final
                    \* AuditResult and the order in which the disk listed the files

vars == <<site, pc, base_url, html_files, idx, step, k, audit_result, applied,
          link, pool, dead_links, r_idx, prev>>

\* the AuditResult and the penalty sum as one score keeper state
S == [r |-> audit_result[1], a |-> applied]

PoolInit == [submitted |-> {}, queue |-> <<>>, running |-> {}, in_get |-> {},
             futures |-> <<>>, yielded |-> {}]

\* ------------------------------------------------------------------------
\* Inputs: the disks, page contents and network answers the runs are
\* checked over
\* ------------------------------------------------------------------------

\* total number of anchors of a site with several links
MaxAnchors == 2

\* number of repeated dead links of the sites that exhaust the score
MaxDeadLinks == 7

PA == <<"a", ".", "h", "t", "m", "l">>
PBIndex == <<"b", "/", "i", "n", "d", "e", "x", ".", "h", "t", "m", "l">>
PBC == <<"b", "/", "c", ".", "h", "t", "m", "l">>
AssetD == <<"d">>
PXIndex == <<"x", "i", "n", "d", "e", "x", ".", "h", "t", "m", "l">>
Env == <<"e", "n", "v">>
PEnvA == <<"e", "n", "v", "/", "a", ".", "h", "t", "m", "l">>
PAB == <<"a", "/", "b", ".", "h", "t", "m", "l">>
PABackB == <<"a", "\\", "b", ".", "h", "t", "m", "l">>
PCBackIndex == <<"c", "\\", "i", "n", "d", "e", "x", ".", "h", "t", "m", "l">>

\* a disk with root /w holding the files rels (relative to the root) and
\* the files outside (absolute name sequences)
MkDisk(rels, outside) ==
    [root |-> <<"/", "w">>,
     files |-> {<<<<"w">>>> \o Split(p, "/") : p \in rels} \cup outside]

\* a disk whose root directory is /name and holds the files rels
MkDiskAt(name, rels) ==
    [root |-> Slash \o name, files |-> {<<name>> \o Split(p, "/") : p \in rels}]

Disks ==
    {MkDisk({IndexHtml} \cup X, {}) : X \in SUBSET {PA, PBIndex, PBC}}
    \cup {MkDisk({IndexHtml, AssetD}, {}),
          MkDisk({IndexHtml, PXIndex}, {}),
          MkDisk({IndexHtml, PA, PEnvA}, {}),
          MkDiskAt(Env, {IndexHtml, PBC}),
          MkDisk({IndexHtml}, {<<PA>>}),
          MkDisk({PA}, {})}

\* the .html files below the root, as relative paths
HtmlPages(disk) ==
    {RelPath(disk, f) :
        f \in {g \in disk.files : /\ Len(g) > Len(NamesOf(disk.root))
                                  /\ SubSeq(g, 1, Len(NamesOf(disk.root))) = NamesOf(disk.root)
                                  /\ EndsWith(g[Len(g)], DotHtml)}}

\* hrefs: '/a' '/a/' '/a.html' 'a' '../a' 'c' '/b' '/b//' '/b/c' '/zz' 'zz.html'
\* '' '?q' '/a?q#f' 'x:a' '#x' '//[' '/../a' '/d' 'http://s/a' 'http://sx/a'
\* 'http://e' 'http://s' '/' './c' '../../a' '/xindex'
Hrefs ==
    {<<"/", "a">>,
     <<"/", "a", "/">>,
     <<"/", "a", ".", "h", "t", "m", "l">>,
     <<"a">>,
     <<".", ".", "/", "a">>,
     <<"c">>,
     <<"/", "b">>,
     <<"/", "b", "/", "/">>,
     <<"/", "b", "/", "c">>,
     <<"/", "z", "z">>,
     <<"z", "z", ".", "h", "t", "m", "l">>,
     <<>>,
     <<"?", "q">>,
     <<"/", "a", "?", "q", "#", "f">>,
     <<"x", ":", "a">>,
     <<"#", "x">>,
     <<"/", "/", "[">>,
     <<"/", "/", "[", "a", "]">>,
     <<"/", "/", "[", ":", ":", "1", "]">>,
     <<"/", ".", ".", "/", "a">>,
     <<"/", "d">>,
     <<"h", "t", "t", "p", ":", "/", "/", "s", "/", "a">>,
     <<"h", "t", "t", "p", ":", "/", "/", "s", "x", "/", "a">>,
     <<"h", "t", "t", "p", ":", "/", "/", "e">>,
     <<"h", "t", "t", "p", ":", "/", "/", "s">>,
     <<"/">>,
     <<".", "/", "c">>,
     <<".", ".", "/", ".", ".", "/", "a">>,
     <<"/", "x", "i", "n", "d", "e", "x">>}

UrlE == <<"h", "t", "t", "p", ":", "/", "/", "e">>
UrlF == <<"h", "t", "t", "p", ":", "/", "/", "f">>
UrlG == <<"h", "t", "t", "p", ":", "/", "/", "g">>
UrlH == <<"h", "t", "t", "p", ":", "/", "/", "h">>

\* hrefs of the sites with several links: '/a' '/b/c' '/zz' and two URLs
CoreHrefs == {<<"/", "a">>, <<"/", "b", "/", "c">>, <<"/", "z", "z">>, UrlE, UrlF}

DeadHref == <<"z", "z", ".", "h", "t", "m", "l">>

\* page contents: what BeautifulSoup finds in the file
Clean == [readable |-> TRUE, h1 |-> 1, schema |-> TRUE, breadcrumb |-> TRUE, anchors |-> <<>>]
Bare == [readable |-> TRUE, h1 |-> 0, schema |-> FALSE, breadcrumb |-> FALSE, anchors |-> <<>>]
Multi == [readable |-> TRUE, h1 |-> 2, schema |-> TRUE, breadcrumb |-> FALSE, anchors |-> <<>>]
Unreadable == [Clean EXCEPT !.readable = FALSE]

\* head of index.html: link rel=canonical, meta og:url, and whether the file parses
BaseS == <<"h", "t", "t", "p", ":", "/", "/", "s", "/">>
MetaNone == [canonical |-> <<>>, og_url |-> <<>>, parse_ok |-> TRUE]
MetaCanonical == [canonical |-> BaseS, og_url |-> <<>>, parse_ok |-> TRUE]
MetaOg == [canonical |-> <<>>, og_url |-> BaseS, parse_ok |-> TRUE]
MetaBroken == [canonical |-> <<>>, og_url |-> <<>>, parse_ok |-> FALSE]

\* answers of the network to the HEAD and the GET request for one URL
Answer(status, raises) == [status |-> status, raises |-> raises]
Resp(head, get) == [head |-> head, get |-> get]
R200 == Resp(Answer(200, ""), Answer(200, ""))
R404 == Resp(Answer(404, ""), Answer(200, ""))
R405ok == Resp(Answer(405, ""), Answer(200, ""))
R405dead == Resp(Answer(405, ""), Answer(404, ""))
R405fail == Resp(Answer(405, ""), Answer(0, "RequestException"))
RFail == Resp(Answer(0, "RequestException"), Answer(200, ""))
RRaise == Resp(Answer(0, "Exception"), Answer(200, ""))
Responses == {R200, R404, R405ok, R405dead, R405fail, RFail, RRaise}

\* the URLs that check_links adds to external_links for the given contents
ExternalOf(meta, content) ==
    {h \in UNION {{content[p].anchors[i] : i \in 1..Len(content[p].anchors)}
                  : p \in DOMAIN content} :
        /\ ~(\E pre \in IGNORE_URL_PREFIXES : StartsWith(h, pre))
        /\ ~UrlparseRaises(h)
        /\ is_external(h)
        /\ ~(ConfigBaseUrl(meta) # <<>> /\ StartsWith(h, ConfigBaseUrl(meta)))}

\* the sites with the given disk, head and contents, one for every
\* assignment of answers from rs to the external URLs
SitesOf(disk, meta, content, rs) ==
    {[disk |-> disk, meta |-> meta, content |-> content, net |-> n]
        : n \in [ExternalOf(meta, content) -> rs]}

\* sites with a single anchor, over all disks, pages and hrefs
SingleLinkSites ==
    UNION {UNION {UNION {UNION {
        SitesOf(d, m, [p \in HtmlPages(d) |->
                          IF p = pg THEN [Clean EXCEPT !.anchors = <<h>>] ELSE Clean],
                Responses)
        : m \in IF is_external(h) /\ ~UrlparseRaises(h)
                THEN {MetaCanonical, MetaNone} ELSE {MetaCanonical}}
        : h \in Hrefs} : pg \in HtmlPages(d)} : d \in Disks}

\* sites without anchors, over the heads of index.html
HeadSites ==
    UNION {SitesOf(MkDisk({IndexHtml, PA}, {}), m,
                   [p \in {IndexHtml, PA} |-> Clean], Responses)
           : m \in {MetaNone, MetaCanonical, MetaOg, MetaBroken}}

ThreePages == MkDisk({IndexHtml, PA, PBC}, {})

\* sites without anchors, over the page structures, with at most one
\* unreadable page
StructureSites ==
    UNION {UNION {
        SitesOf(ThreePages, MetaCanonical,
                [p \in HtmlPages(ThreePages) |->
                    IF p = u THEN [c[p] EXCEPT !.readable = FALSE] ELSE c[p]],
                Responses)
        : u \in HtmlPages(ThreePages) \cup {<<>>}}
        : c \in [HtmlPages(ThreePages) -> {Clean, Bare, Multi}]}

\* the sequences over H of length at most n
SeqsUpTo(H, n) == UNION {[1..m -> H] : m \in 0..n}

\* the ways to give each of n pages a sequence of anchors over H, with at
\* most budget anchors in total
RECURSIVE Assign(_, _, _)
Assign(H, n, budget) ==
    IF n = 0 THEN {<<>>}
    ELSE UNION {{Append(rest, sq) : rest \in Assign(H, n - 1, budget - Len(sq))}
                : sq \in SeqsUpTo(H, budget)}

PageSeq == <<IndexHtml, PA, PBC>>

\* sites with up to MaxAnchors anchors over CoreHrefs
MultiLinkSites ==
    UNION {SitesOf(ThreePages, MetaCanonical,
                   [p \in HtmlPages(ThreePages) |->
                       [Clean EXCEPT !.anchors =
                           a[CHOOSE i \in 1..3 : PageSeq[i] = p]]],
                   {R200, R404})
           : a \in Assign(CoreHrefs, 3, MaxAnchors)}

\* sites whose only page repeats one dead link up to MaxDeadLinks times
DeadLinkSites ==
    UNION {SitesOf(MkDisk({IndexHtml}, {}), MetaCanonical,
                   [p \in {IndexHtml} |-> [Bare EXCEPT !.anchors = [i \in 1..n |-> DeadHref]]],
                   Responses)
           : n \in 0..MaxDeadLinks}

\* sites whose only page links to four distinct external URLs
PoolSites ==
    SitesOf(MkDisk({IndexHtml}, {}), MetaCanonical,
            [p \in {IndexHtml} |-> [Clean EXCEPT !.anchors = <<UrlE, UrlF, UrlG, UrlH>>]],
            {R200, R404, R405ok})

P404 == <<"4", "0", "4", ".", "h", "t", "m", "l">>
PX404 == <<"x", "4", "0", "4", ".", "h", "t", "m", "l">>

\* sites with a.html and a file whose name contains 404.html; the file
\* links to a.html and to an external URL, and index.html links to the file
\* or to nothing
IgnoredFileSites ==
    UNION {UNION {
        SitesOf(MkDisk({IndexHtml, PA, f}, {}), MetaCanonical,
                (IndexHtml :> [Clean EXCEPT !.anchors = x]
                 @@ PA :> Clean
                 @@ f :> [Bare EXCEPT !.anchors = <<<<"/", "a">>, UrlE>>]),
                {R404})
        : x \in {<<>>, <<Slash \o SubSeq(f, 1, Len(f) - 5)>>, <<Slash \o f>>}}
        : f \in {P404, PX404}}

\* sites with a file of the root directory whose name holds a backslash,
\* without breadcrumb marker; index.html links to nothing, to the name
\* without .html, or to the path that has '/' in the place of the backslash
BackslashSites ==
    UNION {UNION {
        SitesOf(MkDisk({IndexHtml} \cup X, {}), MetaCanonical,
                [p \in {IndexHtml} \cup X |->
                    IF p = IndexHtml THEN [Clean EXCEPT !.anchors = x]
                    ELSE [Clean EXCEPT !.breadcrumb = FALSE]],
                {R404})
        : x \in {<<>>, <<<<"/", "a", "\\", "b">>>>, <<<<"/", "a", "/", "b">>>>}}
        : X \in {{PABackB}, {PABackB, PAB}, {PCBackIndex}}}

Sites == SingleLinkSites \cup HeadSites \cup StructureSites \cup MultiLinkSites
         \cup DeadLinkSites \cup PoolSites \cup IgnoredFileSites \cup BackslashSites

\* ------------------------------------------------------------------------
\* The run of main()
\* ------------------------------------------------------------------------

\* the state in which main() starts
Start ==
    /\ pc = "start"
    /\ base_url = <<>>
    /\ html_files = <<>>
    /\ idx = 1
    /\ step = "open"
    /\ k = 1
    /\ audit_result = <<>>
    /\ applied = 0
    /\ link = NoLink
    /\ pool = PoolInit
    /\ dead_links = <<>>
    /\ r_idx = 1

Init == site \in Sites /\ prev = <<>> /\ Start

\* AutoConfig.load that goes on with an empty Config.BASE_URL when
\* index.html is missing, cannot be opened or cannot be parsed
AutoConfigLoad_lenient ==
    /\ pc = "start"
    /\ pc' = "walk"
    /\ base_url' =
          IF ~OsPathExists(site.disk, OsPathJoin(site.disk.root, IndexHtml)) THEN <<>>
          ELSE IF ~site.content[IndexHtml].readable THEN <<>>
          ELSE IF ~site.meta.parse_ok THEN <<>>
          ELSE ConfigBaseUrl(site.meta)
    /\ UNCHANGED <<site, prev, html_files, idx, step, k, audit_result, applied, link,
                   pool, dead_links, r_idx>>

\* AutoConfig.load(): sys.exit(1) when index.html is missing, when open()
\* raises, and when reading the head raises
AutoConfigLoad ==
    /\ pc = "start"
    /\ IF ~OsPathExists(site.disk, OsPathJoin(site.disk.root, IndexHtml))
       THEN pc' = "exit" /\ UNCHANGED base_url
       ELSE IF ~site.content[IndexHtml].readable
       THEN pc' = "exit" /\ UNCHANGED base_url
       ELSE IF ~site.meta.parse_ok
       THEN pc' = "exit" /\ UNCHANGED base_url
       ELSE pc' = "walk" /\ base_url' = ConfigBaseUrl(site.meta)
    /\ UNCHANGED <<site, prev, html_files, idx, step, k, audit_result, applied, link,
                   pool, dead_links, r_idx>>

\* audit_result = AuditResult() and the os.walk loop that fills html_files
Walk ==
    /\ pc = "walk"
    /\ audit_result' = <<AuditResultInit>>
    /\ applied' = 0
    /\ \E order \in WalkOrders(site.disk, NamesOf(site.disk.root)) :
          html_files' = [i \in 1..Len(order) |-> RelPath(site.disk, order[i])]
    /\ pc' = "scan"
    /\ idx' = 1 /\ step' = "open" /\ k' = 1
    /\ UNCHANGED <<site, prev, base_url, link, pool, dead_links, r_idx>>

page == html_files[idx]

\* scan loop that leaves for the orphan loop after its first page
NextPage_after_first ==
    /\ step' = "open" /\ k' = 1
    /\ pc' = "orphan" /\ idx' = 1

\* the scan loop moves to the next page, or main() to the orphan loop
NextPage ==
    /\ step' = "open" /\ k' = 1
    /\ IF idx = Len(html_files) THEN pc' = "orphan" /\ idx' = 1
       ELSE pc' = "scan" /\ idx' = idx + 1

\* the AuditResult after a call of one of its methods, with the penalty sum
Keep(s1) == audit_result' = <<s1.r>> /\ applied' = s1.a

\* except clause that ends the run after recording the error
PageFailed_aborting(s, reason) ==
    /\ Keep(add_error(s, Msg("Failed to process", page, <<>>, <<>>, 0, reason), 0))
    /\ pc' = "done"
    /\ UNCHANGED <<idx, step, k>>

\* except clause that takes 5 points for the failure
PageFailed_penalized(s, reason) ==
    /\ Keep(add_error(s, Msg("Failed to process", page, <<>>, <<>>, 0, reason), 5))
    /\ NextPage

\* the except clause of PageAuditor.run: add_error without penalty, and
\* the scan loop goes on
PageFailed(s, reason) ==
    /\ Keep(add_error(s, Msg("Failed to process", page, <<>>, <<>>, 0, reason), 0))
    /\ NextPage

\* PageAuditor(file_path, audit_result).run(): open, read and parse the file
PageOpen ==
    /\ pc = "scan" /\ step = "open"
    /\ IF ~site.content[page].readable
       THEN PageFailed(S, "OSError")
       ELSE step' = "h1" /\ UNCHANGED <<pc, idx, k, audit_result, applied>>
    /\ UNCHANGED <<site, prev, base_url, html_files, link, pool, dead_links, r_idx>>

CheckH1 ==
    /\ pc = "scan" /\ step = "h1"
    /\ Keep(check_h1(S, page, site.content[page].h1))
    /\ step' = "schema"
    /\ UNCHANGED <<site, prev, pc, base_url, html_files, idx, k, link, pool, dead_links, r_idx>>

CheckSchema ==
    /\ pc = "scan" /\ step = "schema"
    /\ Keep(check_schema(S, page, site.content[page].schema))
    /\ step' = "breadcrumb"
    /\ UNCHANGED <<site, prev, pc, base_url, html_files, idx, k, link, pool, dead_links, r_idx>>

CheckBreadcrumb ==
    /\ pc = "scan" /\ step = "breadcrumb"
    /\ Keep(check_breadcrumb(S, page, site.content[page].breadcrumb))
    /\ step' = "links" /\ k' = 1
    /\ UNCHANGED <<site, prev, pc, base_url, html_files, idx, link, pool, dead_links, r_idx>>

\* one iteration of the loop of check_links
CheckLink ==
    /\ pc = "scan" /\ step = "links" /\ k <= Len(site.content[page].anchors)
    /\ link' = LinkLocals(site.disk, base_url, page, site.content[page].anchors[k])
    /\ LET Done(res) ==
               IF res.raised
               THEN PageFailed(res.s, "ValueError")
               ELSE Keep(res.s) /\ k' = k + 1 /\ UNCHANGED <<pc, idx, step>>
       IN  Done(check_link(S, site.disk, base_url, page, site.content[page].anchors[k]))
    /\ UNCHANGED <<site, prev, base_url, html_files, pool, dead_links, r_idx>>

\* check_links has returned: pages_scanned += 1
PageFinish ==
    /\ pc = "scan" /\ step = "links" /\ k > Len(site.content[page].anchors)
    /\ audit_result' = <<[audit_result[1] EXCEPT !.pages_scanned = @ + 1]>>
    /\ NextPage
    /\ UNCHANGED <<site, prev, base_url, html_files, applied, link, pool, dead_links, r_idx>>

\* one iteration of the orphan loop; after the last one, the test of
\* audit_result.external_links
OrphanCheck ==
    /\ pc = "orphan"
    /\ Keep(orphan_check(S, page))
    /\ IF idx = Len(html_files)
       THEN pc' = (IF audit_result[1].external_links # {} THEN "external" ELSE "done")
            /\ idx' = idx
       ELSE pc' = "orphan" /\ idx' = idx + 1
    /\ UNCHANGED <<site, prev, base_url, html_files, step, k, link, pool, dead_links, r_idx>>

\* check_all: executor.submit(check_one, url) for the next url of the set
Submit(u) ==
    /\ pc = "external"
    /\ u \in audit_result[1].external_links \ pool.submitted
    /\ pool' = [pool EXCEPT !.submitted = @ \cup {u}, !.queue = Append(@, u)]
    /\ UNCHANGED <<site, prev, pc, base_url, html_files, idx, step, k, audit_result,
                   applied, link, dead_links, r_idx>>

\* executor that starts a thread for every queued work item
WorkerTake_unbounded ==
    /\ pc = "external"
    /\ pool.queue # <<>>
    /\ pool' = [pool EXCEPT !.queue = Tail(@), !.running = @ \cup {Head(pool.queue)}]
    /\ UNCHANGED <<site, prev, pc, base_url, html_files, idx, step, k, audit_result,
                   applied, link, dead_links, r_idx>>

\* a worker thread of the executor takes the oldest queued work item
WorkerTake ==
    /\ pc = "external"
    /\ pool.queue # <<>>
    /\ Cardinality(pool.running) < max_workers
    /\ pool' = [pool EXCEPT !.queue = Tail(@), !.running = @ \cup {Head(pool.queue)}]
    /\ UNCHANGED <<site, prev, pc, base_url, html_files, idx, step, k, audit_result,
                   applied, link, dead_links, r_idx>>

\* worker that appends the dead outcome of its probe to dead_links itself
\* when check_one returns after requests.head
CheckOneHead_appending(u) ==
    /\ pc = "external"
    /\ u \in pool.running \ pool.in_get
    /\ IF check_one(site.net[u]).requests = <<"HEAD">>
       THEN /\ pool' = [pool EXCEPT
                          !.running = @ \ {u},
                          !.futures = [x \in (DOMAIN @) \cup {u} |->
                                          IF x = u THEN check_one(site.net[u]) ELSE @[x]]]
            /\ dead_links' = collect(dead_links, u, check_one(site.net[u]))
       ELSE /\ pool' = [pool EXCEPT !.in_get = @ \cup {u}]
            /\ dead_links' = dead_links
    /\ UNCHANGED <<site, prev, pc, base_url, html_files, idx, step, k, audit_result,
                   applied, link, r_idx>>

\* the worker that runs check_one(u) is inside requests.head and the call
\* returns or raises: check_one returns or raises and the future is set,
\* unless the next request of check_one is the GET that follows a 405; then
\* the worker goes on into requests.get
CheckOneHead(u) ==
    /\ pc = "external"
    /\ u \in pool.running \ pool.in_get
    /\ pool' = IF check_one(site.net[u]).requests = <<"HEAD">>
               THEN [pool EXCEPT
                       !.running = @ \ {u},
                       !.futures = [x \in (DOMAIN @) \cup {u} |->
                                       IF x = u THEN check_one(site.net[u]) ELSE @[x]]]
               ELSE [pool EXCEPT !.in_get = @ \cup {u}]
    /\ UNCHANGED <<site, prev, pc, base_url, html_files, idx, step, k, audit_result,
                   applied, link, dead_links, r_idx>>

\* the worker that runs check_one(u) is inside requests.get and the call
\* returns or raises: check_one returns and the future is set
CheckOneGet(u) ==
    /\ pc = "external"
    /\ u \in pool.in_get
    /\ pool' = [pool EXCEPT
                  !.running = @ \ {u},
                  !.in_get = @ \ {u},
                  !.futures = [x \in (DOMAIN @) \cup {u} |->
                                  IF x = u THEN check_one(site.net[u]) ELSE @[x]]]
    /\ UNCHANGED <<site, prev, pc, base_url, html_files, idx, step, k, audit_result,
                   applied, link, dead_links, r_idx>>

\* a step of the worker that runs check_one(u): one of its requests ends
CheckOne(u) == CheckOneHead(u) \/ CheckOneGet(u)

\* as_completed loop that returns dead_links at the first dead link
Yield_return_on_dead(u) ==
    /\ pc = "external"
    /\ pool.submitted = audit_result[1].external_links
    /\ u \in (DOMAIN pool.futures) \ pool.yielded
    /\ dead_links' = collect(dead_links, u, pool.futures[u])
    /\ pool' = [pool EXCEPT !.yielded = @ \cup {u}]
    /\ IF dead_links' # <<>> THEN pc' = "report"
       ELSE IF pool.yielded \cup {u} = pool.submitted THEN pc' = "done"
       ELSE pc' = pc
    /\ r_idx' = 1
    /\ UNCHANGED <<site, prev, base_url, html_files, idx, step, k, audit_result, applied, link>>

\* as_completed yields a finished future and the loop body runs; after the
\* last future check_all returns dead_links
Yield(u) ==
    /\ pc = "external"
    /\ pool.submitted = audit_result[1].external_links
    /\ u \in (DOMAIN pool.futures) \ pool.yielded
    /\ dead_links' = collect(dead_links, u, pool.futures[u])
    /\ pool' = [pool EXCEPT !.yielded = @ \cup {u}]
    /\ IF pool.yielded \cup {u} = pool.submitted
       THEN pc' = (IF dead_links' # <<>> THEN "report" ELSE "done")
       ELSE pc' = pc
    /\ r_idx' = 1
    /\ UNCHANGED <<site, prev, base_url, html_files, idx, step, k, audit_result, applied, link>>

\* one iteration of the loop of main() over dead_external
ReportDead ==
    /\ pc = "report"
    /\ Keep(add_error(S, Msg("Dead External Link", <<>>, dead_links[r_idx].url, <<>>,
                             dead_links[r_idx].status, dead_links[r_idx].reason), 5))
    /\ r_idx' = r_idx + 1
    /\ pc' = (IF r_idx = Len(dead_links) THEN "done" ELSE "report")
    /\ UNCHANGED <<site, prev, base_url, html_files, idx, step, k, link, pool, dead_links>>

Next ==
    \/ AutoConfigLoad
    \/ Walk
    \/ PageOpen
    \/ CheckH1
    \/ CheckSchema
    \/ CheckBreadcrumb
    \/ CheckLink
    \/ PageFinish
    \/ OrphanCheck
    \/ \E u \in DOMAIN site.net : Submit(u)
    \/ WorkerTake
    \/ \E u \in DOMAIN site.net : CheckOneHead(u)
    \/ \E u \in DOMAIN site.net : CheckOneGet(u)
    \/ \E u \in DOMAIN site.net : Yield(u)
    \/ ReportDead

Spec == Init /\ [][Next]_vars

\* ------------------------------------------------------------------------
\* Two runs of main() over the same site: the disk holds the same files
\* and the network gives the same answers; the operating system lists the
\* directories and the executor schedules the probes anew
\* ------------------------------------------------------------------------

TwoPages == MkDisk({IndexHtml, PA}, {})

\* sites whose index.html links to two external URLs and to a.html
TwiceSites ==
    SitesOf(TwoPages, MetaCanonical,
            [p \in HtmlPages(TwoPages) |->
                IF p = IndexHtml THEN [Bare EXCEPT !.anchors = <<UrlE, UrlF, <<"/", "a">>>>]
                ELSE Bare],
            {R200, R404, R405ok, RFail})

\* sites without external links whose three pages link to each other, to
\* a missing page and, on b/c.html, with an href that urlparse rejects
OrderSites ==
    UNION {UNION {
        SitesOf(ThreePages, MetaCanonical,
                (IndexHtml :> [Bare EXCEPT !.anchors = x]
                 @@ PA :> [Bare EXCEPT !.anchors = y]
                 @@ PBC :> [Clean EXCEPT !.anchors = <<<<"/", "a">>>>]),
                {R200})
        : x \in {<<<<"/", "b", "/", "c">>>>, <<<<"/", "a">>, <<"/", "/", "[">>>>}}
        : y \in {<<>>, <<<<"/", "b", "/", "c">>, DeadHref>>}}

\* sites of two pages whose dead links exhaust the score
FloorSites ==
    SitesOf(TwoPages, MetaCanonical,
            (IndexHtml :> [Bare EXCEPT !.anchors = [i \in 1..(MaxDeadLinks - 2) |-> DeadHref]]
             @@ PA :> [Bare EXCEPT !.anchors = <<DeadHref, DeadHref>>]),
            {R200})

\* sites whose index.html has no h1 and no schema and links to an external
\* URL, to a.html and to a missing page before an href that urlparse rejects
PartialSites ==
    SitesOf(TwoPages, MetaCanonical,
            (IndexHtml :> [Bare EXCEPT !.anchors =
                              <<UrlE, <<"/", "a">>, DeadHref, <<"/", "/", "[">>>>]
             @@ PA :> Clean),
            {R200, R404})

InitTwice ==
    site \in TwiceSites \cup OrderSites \cup FloorSites \cup PartialSites /\ prev = <<>> /\ Start

\* main() is started again after a finished run
Rerun ==
    /\ pc = "done"
    /\ prev = <<>>
    /\ prev' = <<[result |-> audit_result[1], html_files |-> html_files]>>
    /\ pc' = "start"
    /\ base_url' = <<>>
    /\ html_files' = <<>>
    /\ idx' = 1 /\ step' = "open" /\ k' = 1
    /\ audit_result' = <<>>
    /\ applied' = 0
    /\ link' = NoLink
    /\ pool' = PoolInit
    /\ dead_links' = <<>>
    /\ r_idx' = 1
    /\ UNCHANGED site

NextTwice == Next \/ Rerun

SpecTwice == InitTwice /\ [][NextTwice]_vars

\* ------------------------------------------------------------------------
\* The run under the scheduling of the interpreter: the main thread takes
\* its next step when it has one (it has none while as_completed waits for
\* a future), an idle worker thread takes a queued work item, and a request
\* of a running check_one ends, by an answer or by its timeout=5
\* ------------------------------------------------------------------------

\* sites whose only page links to three distinct external URLs
ProbeSites ==
    SitesOf(MkDisk({IndexHtml}, {}), MetaCanonical,
            [p \in {IndexHtml} |-> [Clean EXCEPT !.anchors = <<UrlE, UrlF, UrlG>>]],
            {R200, R404, R405fail, RRaise})

InitProbes == site \in ProbeSites /\ prev = <<>> /\ Start

\* the steps of the main thread
MainThread ==
    \/ AutoConfigLoad
    \/ Walk
    \/ PageOpen
    \/ CheckH1
    \/ CheckSchema
    \/ CheckBreadcrumb
    \/ CheckLink
    \/ PageFinish
    \/ OrphanCheck
    \/ \E u \in DOMAIN site.net : Submit(u)
    \/ \E u \in DOMAIN site.net : Yield(u)
    \/ ReportDead

Scheduling ==
    /\ WF_vars(MainThread)
    /\ WF_vars(WorkerTake)
    /\ WF_vars(\E u \in DOMAIN site.net : CheckOne(u))

SpecFair == InitProbes /\ [][Next]_vars /\ Scheduling

\* ------------------------------------------------------------------------
\* The AuditResult object under its public methods.  main() calls add_error
\* and add_warning only; add_info has no caller in the program, so no step
\* of a run changes infos and the method is exercised on the object alone.
\* ------------------------------------------------------------------------

\* the number of method calls made on one AuditResult
MaxCalls == 4

\* the penalties the program passes to add_error and add_warning, and one
\* that reaches the floor of the score within MaxCalls calls
Penalties == {0, 2, 5, 10, 50}

\* messages passed to the methods
ResultMessages ==
    {Msg("Missing H1 tag", IndexHtml, <<>>, <<>>, 0, <<>>),
     Msg("No Schema (JSON-LD) found", PA, <<>>, <<>>, 0, <<>>)}

\* the number of calls made so far
Calls == Len(S.r.errors) + Len(S.r.warnings) + Len(S.r.infos)

\* r = AuditResult(): no run of main() is in progress
InitResult ==
    /\ site \in PoolSites
    /\ prev = <<>>
    /\ pc = "done"
    /\ base_url = <<>>
    /\ html_files = <<>>
    /\ idx = 1
    /\ step = "open"
    /\ k = 1
    /\ audit_result = <<AuditResultInit>>
    /\ applied = 0
    /\ link = NoLink
    /\ pool = PoolInit
    /\ dead_links = <<>>
    /\ r_idx = 1

\* what a method call leaves alone
ResultOnly ==
    UNCHANGED <<site, pc, base_url, html_files, idx, step, k, link, pool,
                dead_links, r_idx, prev>>

\* r.add_error(msg, penalty)
AddError(msg, penalty) ==
    /\ Calls < MaxCalls
    /\ Keep(add_error(S, msg, penalty))
    /\ ResultOnly

\* r.add_warning(msg, penalty)
AddWarning(msg, penalty) ==
    /\ Calls < MaxCalls
    /\ Keep(add_warning(S, msg, penalty))
    /\ ResultOnly

\* r.add_info(msg)
AddInfo(msg) ==
    /\ Calls < MaxCalls
    /\ Keep(add_info(S, msg))
    /\ ResultOnly

NextResult ==
    \/ \E msg \in ResultMessages : \E penalty \in Penalties : AddError(msg, penalty)
    \/ \E msg \in ResultMessages : \E penalty \in Penalties : AddWarning(msg, penalty)
    \/ \E msg \in ResultMessages : AddInfo(msg)

SpecResult == InitResult /\ [][NextResult]_vars

\* the score is 100 less the penalties passed so far, floored at 0, whatever
\* the order of the calls
ScoreFromPenalties == S.r.score = Max(0, 100 - applied)

\* a call that changes infos appends one message to it and leaves the score,
\* the penalty sum, the errors and the warnings as they are; no other call
\* changes infos
InfosApart ==
    [][/\ S'.r.infos # S.r.infos =>
            /\ \E msg \in ResultMessages : S'.r.infos = Append(S.r.infos, msg)
            /\ S'.r.score = S.r.score /\ applied' = applied
            /\ S'.r.errors = S.r.errors /\ S'.r.warnings = S.r.warnings
       /\ S'.r.infos = S.r.infos =>
            Len(S'.r.errors) + Len(S'.r.warnings) = Len(S.r.errors) + Len(S.r.warnings) + 1]_vars

\* two add_info calls after an error of 5 and a warning of 2: score 93 and
\* both messages in infos
InfosRecorded ==
    /\ Len(S.r.infos) = 2 /\ Len(S.r.errors) = 1 /\ Len(S.r.warnings) = 1
    /\ S.r.score = 93

\* ------------------------------------------------------------------------
\* Properties of the run
\* ------------------------------------------------------------------------

\* AuditResult() has been created
Created == audit_result # <<>>

AR == audit_result[1]

\* a message of the given kind is in the sequence
Has(msgs, kind) == \E i \in 1..Len(msgs) : msgs[i].kind = kind

\* the number of messages of the given kind
Count(msgs, kind) == Cardinality({i \in 1..Len(msgs) : msgs[i].kind = kind})

\* C1: once the AuditResult exists its score is an integer between 0 and
\* 100 and equals max(0, 100 - the sum of the penalties of all add_error /
\* add_warning calls applied so far)
C1_ScoreIsFlooredSum ==
    Created => /\ AR.score \in 0..100
               /\ AR.score = Max(0, 100 - applied)

\* the penalties applied exceed 100 and the score stays at 0
C1_Witness == Created /\ pc = "done" /\ applied > 100 /\ AR.score = 0

\* C2: the score never rises during a run: no step of the scan, of the
\* orphan loop or of the external phase leaves it higher than it was
C2_ScoreNeverRises ==
    [][(Created /\ audit_result' # <<>>) => audit_result'[1].score <= AR.score]_vars

\* a finished run whose score was lowered in the scan, in the orphan loop
\* and in the external phase
C2_Witness ==
    /\ Created /\ pc = "done"
    /\ Has(AR.errors, "Dead Internal Link")
    /\ Has(AR.warnings, "Orphan Page (No inbound links)")
    /\ Has(AR.errors, "Dead External Link")
    /\ AR.score = 100 - applied
    /\ AR.score < 100

\* resolution of the segments of a relative path against a stack of
\* directory names: '.' and '' are dropped, '..' removes the last name and
\* stays at the root when there is none
RECURSIVE DotResolve(_, _)
DotResolve(stack, segs) ==
    IF segs = <<>> THEN stack
    ELSE IF Head(segs) = Dot \/ Head(segs) = <<>> THEN DotResolve(stack, Tail(segs))
    ELSE IF Head(segs) = DotDot
    THEN DotResolve(IF stack = <<>> THEN stack ELSE DropLast(stack), Tail(segs))
    ELSE DotResolve(Append(stack, Head(segs)), Tail(segs))

\* the root-absolute path of the relative path rel seen from directory dir;
\* an empty rel names the directory itself
StandardResolve(dir, rel) ==
    LET Rooted(names, slash) ==
            IF names = <<>> THEN Slash
            ELSE Slash \o Join(names, "/") \o (IF slash THEN Slash ELSE <<>>)
        Of(segs) ==
            Rooted(DotResolve(Split(dir, "/"), segs),
                   segs[Len(segs)] \in {<<>>, Dot, DotDot})
    IN  Of(Split(rel, "/"))

\* C3: for a page in a subdirectory, normalize_local_url resolves a
\* page-relative href against the directory of the page with the standard
\* resolution of '.' and '..', and returns an href that starts with '/'
\* unchanged
C3_SubdirResolution ==
    (link.called /\ Contains(link.page, Slash)) =>
        IF StartsWith(link.href, Slash) THEN link.abs = link.href
        ELSE SchemeEnd(link.href) = 0 =>
                link.abs = StandardResolve(Dirname(link.page), StripQueryFragment(link.href))

\* page b/index.html with href ../a gives /a
C3_Witness ==
    /\ link.called
    /\ link.page = PBIndex
    /\ link.href = <<".", ".", "/", "a">>
    /\ link.abs = <<"/", "a">>

\* a path that starts with '/', has no query or fragment and, apart from
\* one trailing slash, is made of plain names
PlainPath(p) ==
    /\ StartsWith(p, Slash)
    /\ ~Contains(p, <<"?">>) /\ ~Contains(p, <<"#">>)
    /\ \/ p = Slash
       \/ \A n \in {Split(IF EndsWith(p, Slash) THEN DropLast(p) ELSE p, "/")[i]
                       : i \in 2..Len(Split(IF EndsWith(p, Slash) THEN DropLast(p) ELSE p, "/"))} :
              n \notin {<<>>, Dot, DotDot}

\* the files that make a plain path exist: the root index document for the
\* empty path, else <p>.html, <p>/index.html or a regular file at <p>
FileBacked(disk, p) ==
    LET In(names) ==
            IF names = <<>> THEN (NamesOf(disk.root) \o <<IndexHtml>>) \in disk.files
            ELSE \/ (NamesOf(disk.root) \o DropLast(names)
                        \o <<names[Len(names)] \o DotHtml>>) \in disk.files
                 \/ (NamesOf(disk.root) \o names \o <<IndexHtml>>) \in disk.files
                 \/ (NamesOf(disk.root) \o names) \in disk.files
    IN  In(NamesOf(IF EndsWith(p, Slash) THEN DropLast(p) ELSE p))

\* C4: check_local_file_exists(p) holds exactly if, after stripping one
\* trailing slash, p is empty and the root index document exists, or
\* <p>.html exists, or <p>/index.html exists, or a regular file is at <p>
C4_ExistsIff ==
    (link.called /\ PlainPath(link.abs)) => (link.exists <=> FileBacked(site.disk, link.abs))

\* with index.html and a.html only, /a/ exists
C4_Witness ==
    /\ link.called
    /\ site.disk = MkDisk({IndexHtml, PA}, {})
    /\ link.abs = <<"/", "a", "/">>
    /\ link.exists

\* the forms under which an inbound link to the page counts: the parent
\* directory for an index document, the path without .html for every
\* other page, and the literal path with .html
AcceptedForms(rel_path) ==
    {Slash \o rel_path}
    \cup (IF Basename(rel_path) = IndexHtml
          THEN {IF Dirname(rel_path) = <<>> THEN Slash ELSE Slash \o Dirname(rel_path)}
          ELSE {Slash \o SubSeq(rel_path, 1, Len(rel_path) - 5)})

\* the orphan loop has warned about the page
Flagged(rel_path) ==
    \E i \in 1..Len(AR.warnings) :
        /\ AR.warnings[i].kind = "Orphan Page (No inbound links)"
        /\ AR.warnings[i].page = rel_path

\* C5: after the scan, a selected page other than the root index gets the
\* orphan warning exactly if inbound_links has no positive count under any
\* of its accepted forms; a page with no inbound link is flagged
C5_OrphanIff ==
    (Created /\ pc \in {"external", "report", "done"}) =>
        \A i \in 1..Len(html_files) :
            html_files[i] # IndexHtml =>
                (Flagged(html_files[i])
                    <=> \A f \in AcceptedForms(html_files[i]) : InboundGet(AR, f) = 0)

\* the iteration of check_links for anchor j of the page raises
AnchorRaises(rel_path, j) ==
    check_link([r |-> AuditResultInit, a |-> 0], site.disk, base_url, rel_path,
               site.content[rel_path].anchors[j]).raised

\* anchor j of the page is an internal link whose target does not exist
AnchorDead(rel_path, j) ==
    LET Is(l) == l.called /\ ~l.exists
    IN  Is(LinkLocals(site.disk, base_url, rel_path, site.content[rel_path].anchors[j]))

\* the number of anchors of a page that a finished PageAuditor.run has
\* processed: none of an unreadable page, else those before the first that raises
ProcessedOf(rel_path) ==
    LET First(R) == IF R = {} THEN Len(site.content[rel_path].anchors)
                    ELSE (CHOOSE j \in R : \A m \in R : j <= m) - 1
    IN  IF ~site.content[rel_path].readable THEN 0
        ELSE First({j \in 1..Len(site.content[rel_path].anchors) : AnchorRaises(rel_path, j)})

\* the number of anchors of html_files[i] processed so far
ProcessedSoFar(i) ==
    IF pc = "scan" /\ i = idx THEN (IF step = "links" THEN k - 1 ELSE 0)
    ELSE IF pc = "scan" /\ i > idx THEN 0
    ELSE ProcessedOf(html_files[i])

\* the occurrences of dead internal links processed so far, as pairs of
\* page position and anchor position
DeadOccurrences ==
    UNION {{<<i, j>> : j \in {m \in 1..ProcessedSoFar(i) : AnchorDead(html_files[i], m)}}
           : i \in 1..Len(html_files)}

\* the penalty the program passes with a message of each kind
PenaltyOf(kind) ==
    CASE kind = "Dead Internal Link" -> 10
      [] kind \in {"Missing H1 tag", "Orphan Page (No inbound links)", "Dead External Link"} -> 5
      [] kind \in {"No Schema (JSON-LD) found", "Link with .html extension",
                   "Relative path used", "Internal link using full URL"} -> 2
      [] OTHER -> 0

RECURSIVE PenaltySum(_)
PenaltySum(msgs) ==
    IF msgs = <<>> THEN 0 ELSE PenaltyOf(Head(msgs).kind) + PenaltySum(Tail(msgs))

\* C6: every occurrence of an internal href that fails the existence check
\* adds its own Dead Internal Link error and applies its penalty once:
\* occurrences are not deduplicated, on one page or across pages
C6_ErrorPerOccurrence ==
    Created =>
        /\ Count(AR.errors, "Dead Internal Link") = Cardinality(DeadOccurrences)
        /\ applied = PenaltySum(AR.errors) + PenaltySum(AR.warnings)

\* a page repeated one dead href and got the same error twice
C6_Witness ==
    /\ Created /\ pc = "done"
    /\ Cardinality(DeadOccurrences) >= 2
    /\ \E i, j \in 1..Len(AR.errors) :
          /\ i < j /\ AR.errors[i] = AR.errors[j]
          /\ AR.errors[i].kind = "Dead Internal Link"

\* the classification of an external URL by the answers of the network:
\* dead when a request raises or when the final status is >= 400, the
\* final status being that of GET when HEAD answers 405
NetDead(resp) ==
    \/ resp.head.raises # ""
    \/ resp.head.status = 405 /\ (resp.get.raises # "" \/ resp.get.status >= 400)
    \/ resp.head.status # 405 /\ resp.head.status >= 400

DeadUrls == {dead_links[i].url : i \in 1..Len(dead_links)}

\* C7: an external URL is classified dead exactly if its final response
\* status is >= 400 or an attempt fails; a 405 answer to HEAD is followed
\* by one GET whose answer decides, every other answer to HEAD is final
C7_DeadIff ==
    (Created /\ pc \in {"report", "done"}) =>
        \A u \in AR.external_links :
            /\ u \in DeadUrls <=> NetDead(site.net[u])
            /\ pool.futures[u].requests =
                  IF site.net[u].head.raises = "" /\ site.net[u].head.status = 405
                  THEN <<"HEAD", "GET">> ELSE <<"HEAD">>
            /\ pc = "done" =>
                  (NetDead(site.net[u])
                      <=> \E i \in 1..Len(AR.errors) :
                              /\ AR.errors[i].kind = "Dead External Link"
                              /\ AR.errors[i].href = u)

\* HEAD answered 405 and GET 200: the URL is alive
C7_Witness ==
    /\ Created /\ pc = "done"
    /\ \E u \in AR.external_links :
          /\ site.net[u] = R405ok
          /\ pool.futures[u].requests = <<"HEAD", "GET">>
          /\ u \notin DeadUrls

\* C8: with more distinct URLs than workers, check_all produces exactly
\* one outcome for every URL under every interleaving of the submissions,
\* of the workers' steps (a work item taken, the HEAD request ended, the GET
\* request ended) and of the as_completed loop: every URL gets a finished
\* future that the loop handles once, no URL is left out and none is
\* classified twice
C8_OneOutcomePerUrl ==
    /\ \A i, j \in 1..Len(dead_links) : i # j => dead_links[i].url # dead_links[j].url
    /\ Cardinality(pool.running) <= max_workers
    /\ pool.in_get \subseteq pool.running
    /\ pool.yielded \subseteq DOMAIN pool.futures
    /\ (DOMAIN pool.futures) \cup pool.running \subseteq pool.submitted
    /\ (Created /\ pc \in {"report", "done"}) =>
          /\ pool.submitted = AR.external_links
          /\ DOMAIN pool.futures = AR.external_links
          /\ pool.yielded = AR.external_links
          /\ pool.queue = <<>> /\ pool.running = {} /\ pool.in_get = {}
          /\ DeadUrls \subseteq AR.external_links
    /\ (Created /\ pc = "done") =>
          Count(AR.errors, "Dead External Link") = Cardinality(DeadUrls)

\* a finished run over more URLs than workers, some dead and some alive,
\* one of them probed again with GET after a 405
C8_Witness ==
    /\ Created /\ pc = "done"
    /\ Cardinality(AR.external_links) > max_workers
    /\ DeadUrls # {}
    /\ DeadUrls # AR.external_links
    /\ \E u \in AR.external_links : pool.futures[u].requests = <<"HEAD", "GET">>

\* the errors that do not come from the external probes
ScanErrors(r) == SelectSeq(r.errors, LAMBDA m : m.kind # "Dead External Link")

\* the Dead External Link errors
ProbeErrors(r) == {r.errors[i] : i \in {j \in 1..Len(r.errors) : r.errors[j].kind = "Dead External Link"}}

\* a second run of main() has finished
SecondDone == Created /\ prev # <<>> /\ pc = "done"

\* C9 as stated: two runs over the same file tree with the same responses
\* give identical AuditResults, the order of the entries of errors and
\* warnings included, whatever the order in which the probes complete
C9_IdenticalRuns == SecondDone => AR = prev[1].result

\* the messages of a sequence with the number of times each occurs
BagOf(msgs) ==
    [m \in {msgs[i] : i \in 1..Len(msgs)} |->
        Cardinality({i \in 1..Len(msgs) : msgs[i] = m})]

\* C9, amended: two runs over the same file tree with the same responses
\* give the same score, inbound link counts, external links and page
\* count and the same errors and warnings up to their order; when the
\* directories are listed in the same order, the warnings and the errors
\* of the scan are in the same order too; the Dead External Link errors
\* come last, in the order in which the as_completed loop of check_all
\* collected them into dead_links, which may differ between the runs
C9_SameUpToOrder ==
    SecondDone =>
        /\ AR.score = prev[1].result.score
        /\ AR.infos = prev[1].result.infos
        /\ AR.inbound_links = prev[1].result.inbound_links
        /\ AR.external_links = prev[1].result.external_links
        /\ AR.pages_scanned = prev[1].result.pages_scanned
        /\ BagOf(AR.errors) = BagOf(prev[1].result.errors)
        /\ BagOf(AR.warnings) = BagOf(prev[1].result.warnings)
        /\ SubSeq(AR.errors, 1, Len(ScanErrors(AR))) = ScanErrors(AR)
        /\ Len(AR.errors) = Len(ScanErrors(AR)) + Len(dead_links)
        /\ \A i \in 1..Len(dead_links) :
              AR.errors[Len(ScanErrors(AR)) + i].href = dead_links[i].url
        /\ html_files = prev[1].html_files =>
              /\ AR.warnings = prev[1].result.warnings
              /\ ScanErrors(AR) = ScanErrors(prev[1].result)

\* the second run listed the files in the same order and reported the
\* same dead external links in another order
C9_Witness ==
    /\ SecondDone
    /\ html_files = prev[1].html_files
    /\ AR.errors # prev[1].result.errors
    /\ Cardinality(ProbeErrors(AR)) >= 2

\* a canonical path: starts with '/', has no '?' and no '#', and has no
\* trailing slash unless it is '/'
Canonical(p) ==
    /\ StartsWith(p, Slash)
    /\ ~Contains(p, <<"?">>)
    /\ ~Contains(p, <<"#">>)
    /\ p = Slash \/ ~EndsWith(p, Slash)

\* C10: every key of inbound_links is canonical
C10_KeysCanonical == Created => \A p \in DOMAIN AR.inbound_links : Canonical(p)

\* every page of html_files has been through PageAuditor.run: it was
\* counted in pages_scanned or it got its Failed to process error
ScanComplete ==
    AR.pages_scanned + Count(AR.errors, "Failed to process") = Len(html_files)

\* the positions of html_files for which the orphan loop has run
Judged ==
    IF pc = "scan" THEN {}
    ELSE IF pc = "orphan" THEN 1..(idx - 1)
    ELSE 1..Len(html_files)

\* the orphan loop, run on the page against the inbound_links of the
\* current state, would warn about it
OrphanNow(rel_path) == orphan_check(S, rel_path).r.warnings # AR.warnings

\* C11: the phases run in order: while the scan loop runs no orphan
\* warning exists, the orphan loop starts only when every page of
\* html_files has been scanned, and no probe is submitted before the orphan
\* loop has ended; so the verdict on a page rests on the links of all
\* pages, those scanned after it included: it is the verdict the orphan
\* loop gives on the final inbound_links
C11_PhasesInOrder ==
    Created =>
        /\ pc = "scan" => ~Has(AR.warnings, "Orphan Page (No inbound links)")
        /\ pc # "scan" => ScanComplete
        /\ \A i \in 1..Len(html_files) : Flagged(html_files[i]) => i \in Judged
        /\ pc \in {"scan", "orphan"} => pool = PoolInit /\ dead_links = <<>>
        /\ pc \in {"external", "report", "done"} =>
              \A i \in 1..Len(html_files) :
                  /\ Flagged(html_files[i]) <=> OrphanNow(html_files[i])
                  /\ (/\ html_files[i] # IndexHtml
                      /\ Basename(html_files[i]) = IndexHtml
                         \/ ~EndsWith(html_files[i], IndexHtml)
                      /\ ~Contains(html_files[i], <<"\\">>))
                     => (Flagged(html_files[i])
                            <=> \A f \in AcceptedForms(html_files[i]) : InboundGet(AR, f) = 0)

\* a.html was scanned before index.html, whose link /a is its only
\* inbound link, and a.html is not flagged
C11_Witness ==
    /\ Created /\ pc = "done"
    /\ Len(html_files) = 2
    /\ html_files[1] = PA /\ html_files[2] = IndexHtml
    /\ site.content[PA].anchors = <<>>
    /\ InboundGet(AR, <<"/", "a">>) = 1
    /\ ~Flagged(PA)

\* the pages an AuditResult flags as orphans
OrphanPages(r) ==
    {r.warnings[i].page :
        i \in {j \in 1..Len(r.warnings) : r.warnings[j].kind = "Orphan Page (No inbound links)"}}

\* C12: for a fixed set of pages the final inbound_links, the set of pages
\* flagged as orphans and the final score are the same for every order in
\* which the pages are scanned
C12_OrderIndependent ==
    SecondDone =>
        /\ AR.inbound_links = prev[1].result.inbound_links
        /\ OrphanPages(AR) = OrphanPages(prev[1].result)
        /\ AR.score = prev[1].result.score

\* two runs scanned three pages in different orders; a page is flagged,
\* links are counted, points are lost and one page failed
C12_Witness ==
    /\ SecondDone
    /\ Len(html_files) = 3
    /\ html_files[1] = prev[1].html_files[2]
    /\ html_files[2] = prev[1].html_files[1]
    /\ OrphanPages(AR) # {}
    /\ DOMAIN AR.inbound_links # {}
    /\ AR.score < 100
    /\ AR.warnings # prev[1].result.warnings

\* reading the page fails or one of its anchors makes check_links raise
PageFails(rel_path) ==
    \/ ~site.content[rel_path].readable
    \/ \E j \in 1..Len(site.content[rel_path].anchors) : AnchorRaises(rel_path, j)

\* the number of errors of the given kind about the page
ErrorsAbout(kind, rel_path) ==
    Cardinality({i \in 1..Len(AR.errors) :
                    AR.errors[i].kind = kind /\ AR.errors[i].page = rel_path})

\* the positions of html_files for which PageAuditor.run has returned
Audited == IF pc = "scan" THEN 1..(idx - 1) ELSE 1..Len(html_files)

\* C13: a page whose reading, parsing or checking raises gets exactly one
\* Failed to process error and PageAuditor.run returns; the pages after it
\* are still scanned (their checks are made and they are counted in
\* pages_scanned) and the run is not ended by the failure
C13_PageFailureContained ==
    Created =>
        /\ pc # "exit"
        /\ \A i \in 1..Len(html_files) :
              ErrorsAbout("Failed to process", html_files[i]) =
                  IF i \in Audited /\ PageFails(html_files[i]) THEN 1 ELSE 0
        /\ AR.pages_scanned = Cardinality({i \in Audited : ~PageFails(html_files[i])})
        /\ \A i \in Audited :
              site.content[html_files[i]].readable =>
                  ErrorsAbout("Missing H1 tag", html_files[i]) =
                      IF site.content[html_files[i]].h1 = 0 THEN 1 ELSE 0

\* the first of three pages could not be read; the two pages after it
\* were scanned and the last of them got its Missing H1 error
C13_Witness ==
    /\ Created /\ pc = "done"
    /\ Len(html_files) = 3
    /\ ~site.content[html_files[1]].readable
    /\ ErrorsAbout("Failed to process", html_files[1]) = 1
    /\ ErrorsAbout("Missing H1 tag", html_files[3]) = 1
    /\ AR.pages_scanned = 2

\* check_all has returned
Returned == pc \in {"report", "done"}

\* C14: check_all returns only after every submitted probe has completed:
\* when it has returned, every URL of external_links has a finished future
\* that the loop has handled, nothing is queued or running and no worker
\* waits for a HEAD or a GET answer; a dead link recorded by the loop does
\* not make it return while probes are pending; and once the external
\* phase is entered check_all eventually returns
C14_ReturnsAfterAllProbes ==
    /\ [](Created /\ Returned =>
            /\ pool.submitted = AR.external_links
            /\ DOMAIN pool.futures = pool.submitted
            /\ pool.yielded = pool.submitted
            /\ pool.queue = <<>> /\ pool.running = {} /\ pool.in_get = {})
    /\ [](pool.yielded # pool.submitted \/ pool.queue # <<>> \/ pool.running # {}
          \/ pool.in_get # {}
            => ~Returned)
    /\ (pc = "external") ~> Returned

\* the loop has recorded a dead link and check_all is still waiting: one
\* probe got 405 to its HEAD request and waits for the answer to GET, and
\* one URL is still queued
C14_Witness ==
    /\ Created /\ pc = "external"
    /\ dead_links # <<>>
    /\ pool.in_get # {}
    /\ pool.queue # <<>>

\* index.html is a file of the root directory, open() succeeds on it and
\* BeautifulSoup parses it
HomepageUsable ==
    /\ (NamesOf(site.disk.root) \o <<IndexHtml>>) \in site.disk.files
    /\ site.content[IndexHtml].readable
    /\ site.meta.parse_ok

\* nothing of the run has happened: no AuditResult, no file selected, no
\* link processed, no probe submitted
NothingDone ==
    /\ audit_result = <<>>
    /\ html_files = <<>>
    /\ link = NoLink
    /\ pool = PoolInit
    /\ dead_links = <<>>

\* C15: when the root index.html is missing, cannot be opened or cannot be
\* parsed, AutoConfig.load ends the run before any page is scanned: the run never
\* leaves its start other than by sys.exit, no AuditResult is created and
\* no page, orphan or external check is made
C15_NoRunWithoutHomepage ==
    /\ ~HomepageUsable => pc \in {"start", "exit"} /\ NothingDone
    /\ pc = "exit" => ~HomepageUsable /\ NothingDone

\* the root holds a.html but no index.html, and the run has ended in sys.exit
C15_Witness ==
    /\ pc = "exit"
    /\ site.disk = MkDisk({PA}, {})
    /\ audit_result = <<>>

\* the scheme and the authority of a URL
Origin(url) == <<SplitResult(url, <<>>).scheme, SplitResult(url, <<>>).netloc>>

\* check_links took the href of the page for a full URL of the own site
FullUrlWarned(rel_path, href) ==
    \E i \in 1..Len(AR.warnings) :
        /\ AR.warnings[i].kind = "Internal link using full URL"
        /\ AR.warnings[i].page = rel_path
        /\ AR.warnings[i].href = href

\* the anchors processed so far that have a network authority, as pairs of
\* page and href
AuthorityAnchors ==
    UNION {{<<html_files[i], site.content[html_files[i]].anchors[j]>> :
               j \in {m \in 1..ProcessedSoFar(i) :
                         /\ ~(\E pre \in IGNORE_URL_PREFIXES :
                                 StartsWith(site.content[html_files[i]].anchors[m], pre))
                         /\ ~UrlparseRaises(site.content[html_files[i]].anchors[m])
                         /\ is_external(site.content[html_files[i]].anchors[m])}}
           : i \in 1..Len(html_files)}

\* C16: an href with a network authority is taken for an internal link of
\* the own site only when its scheme and authority are those of
\* Config.BASE_URL; an href whose authority differs from that of BASE_URL,
\* one that has BASE_URL as a string prefix included, is added to
\* external_links and is not resolved as an internal link
C16_ExactOrigin ==
    Created =>
        \A a \in AuthorityAnchors :
            /\ FullUrlWarned(a[1], a[2]) => base_url # <<>> /\ Origin(a[2]) = Origin(base_url)
            /\ (base_url = <<>> \/ Origin(a[2])[2] # Origin(base_url)[2]) =>
                  a[2] \in AR.external_links /\ ~FullUrlWarned(a[1], a[2])

\* C17: in the orphan loop a page other than the root index.html whose
\* filename is index.html is vindicated by an inbound link under its parent
\* directory path, and a page with any other filename by an inbound link
\* under its path without .html or under its literal .html path; a page
\* that is not an index document and has an inbound link recorded under
\* its extensionless path is never flagged
C17_FormsAccepted ==
    (Created /\ pc \in {"external", "report", "done"}) =>
        \A i \in 1..Len(html_files) :
            html_files[i] # IndexHtml =>
                IF Basename(html_files[i]) = IndexHtml
                THEN InboundGet(AR, Slash \o Dirname(html_files[i])) > 0
                        => ~Flagged(html_files[i])
                ELSE (\/ InboundGet(AR, Slash \o SubSeq(html_files[i], 1,
                                                      Len(html_files[i]) - 5)) > 0
                      \/ InboundGet(AR, Slash \o html_files[i]) > 0)
                        => ~Flagged(html_files[i])

\* the positions of html_files whose page has been through check_breadcrumb
BreadcrumbChecked ==
    {i \in 1..Len(html_files) :
        /\ site.content[html_files[i]].readable
        /\ i \in Audited \/ (i = idx /\ step = "links")}

\* the number of breadcrumb warnings about the page
BreadcrumbWarnings(rel_path) ==
    Cardinality({i \in 1..Len(AR.warnings) :
                    /\ AR.warnings[i].kind = "No Breadcrumb found in deep page"
                    /\ AR.warnings[i].page = rel_path})

\* check_breadcrumb leaves the score and the sum of the penalties as they are
BreadcrumbFree ==
    (pc = "scan" /\ step = "breadcrumb") =>
        audit_result'[1].score = AR.score /\ applied' = applied

\* C18 as stated: every scanned page other than the root index.html that
\* has no breadcrumb marker gets exactly one breadcrumb warning without
\* penalty, whatever directory it lies in, and the root page gets none
C18_AllPagesWarned ==
    /\ [](Created =>
            \A i \in BreadcrumbChecked :
                BreadcrumbWarnings(html_files[i]) =
                    IF html_files[i] # IndexHtml /\ ~site.content[html_files[i]].breadcrumb
                    THEN 1 ELSE 0)
    /\ [][BreadcrumbFree]_vars

\* the relative path of the page holds a path separator, '/' or '\'
HasSeparator(rel_path) ==
    \E i \in 1..Len(rel_path) : rel_path[i] \in {"/", "\\"}

\* C18, amended: every scanned page other than the root index.html whose
\* relative path holds a path separator, '/' or '\' (a page in a
\* subdirectory, or a file of the root whose name holds a backslash), and
\* that has no breadcrumb marker gets exactly one breadcrumb warning
\* without penalty; the root index.html and every other page whose relative
\* path holds no separator get none, marker or not
C18_DeepPagesWarned ==
    /\ [](Created =>
            \A i \in BreadcrumbChecked :
                BreadcrumbWarnings(html_files[i]) =
                    IF HasSeparator(html_files[i]) /\ ~site.content[html_files[i]].breadcrumb
                    THEN 1 ELSE 0)
    /\ [][BreadcrumbFree]_vars

\* three scanned pages without a marker: b/c.html has its warning, a.html
\* and index.html have none
C18_Witness ==
    /\ Created /\ pc = "done"
    /\ AR.pages_scanned = 3
    /\ \A i \in 1..Len(html_files) : ~site.content[html_files[i]].breadcrumb
    /\ BreadcrumbWarnings(PBC) = 1
    /\ BreadcrumbWarnings(PA) = 0
    /\ BreadcrumbWarnings(IndexHtml) = 0

\* a request for the URL raised: the probe failed at the transport level
\* or timed out
TransportFailed(resp) ==
    \/ resp.head.raises # ""
    \/ resp.head.status = 405 /\ resp.get.raises # ""

\* the text of the exception of the failed request
FailureText(resp) == IF resp.head.raises # "" THEN resp.head.raises ELSE resp.get.raises

\* the final HTTP status of a probe whose requests were answered
FinalStatus(resp) == IF resp.head.status = 405 THEN resp.get.status ELSE resp.head.status

\* the Dead External Link errors about the URL
DeadErrorsAbout(u) ==
    {i \in 1..Len(AR.errors) :
        AR.errors[i].kind = "Dead External Link" /\ AR.errors[i].href = u}

\* C19: every URL classified dead adds exactly one Dead External Link
\* error with the penalty of 5, and the error carries the URL with the
\* HTTP status or, when a request failed or timed out, with the text of
\* the failure
C19_DeadErrorCarriesReason ==
    (Created /\ pc = "done") =>
        /\ applied = PenaltySum(AR.errors) + PenaltySum(AR.warnings)
        /\ \A u \in AR.external_links :
              NetDead(site.net[u]) =>
                  /\ Cardinality(DeadErrorsAbout(u)) = 1
                  /\ \A i \in DeadErrorsAbout(u) :
                        IF TransportFailed(site.net[u])
                        THEN AR.errors[i].reason = FailureText(site.net[u])
                        ELSE AR.errors[i].status = FinalStatus(site.net[u])

\* the .html files below the root that no ignored directory name lies
\* between the root and the file, and that is_ignored_file lets pass
Selectable ==
    {RelPath(site.disk, f) :
        f \in {g \in site.disk.files :
                  /\ Len(g) > Len(NamesOf(site.disk.root))
                  /\ SubSeq(g, 1, Len(NamesOf(site.disk.root))) = NamesOf(site.disk.root)
                  /\ \A j \in (Len(NamesOf(site.disk.root)) + 1)..(Len(g) - 1) :
                        g[j] \notin IGNORE_PATHS
                  /\ ~is_ignored_file(g[Len(g)])}}

\* C20: the walk prunes a subdirectory exactly if its own name is in
\* IGNORE_PATHS, whatever the names of the directories that lead to the
\* root: html_files holds, once each, exactly the page documents below the
\* root that have no ignored directory name between the root and the file
C20_PrunedByOwnName ==
    pc \notin {"start", "walk", "exit"} =>
        /\ {html_files[i] : i \in 1..Len(html_files)} = Selectable
        /\ Len(html_files) = Cardinality(Selectable)

\* the root-absolute path of the relative path rel seen from the root
\* directory, with '.' and '..' resolved and '..' kept from leaving the root
RootResolve(rel) ==
    LET Rooted(names, slash) ==
            IF names = <<>> THEN Slash
            ELSE Slash \o Join(names, "/") \o (IF slash THEN Slash ELSE <<>>)
        Of(segs) ==
            Rooted(DotResolve(<<>>, segs), segs[Len(segs)] \in {<<>>, Dot, DotDot})
    IN  Of(Split(rel, "/"))

\* the last process_internal_link call was made for a page-relative href
\* on a page of the root directory
RootRelativeCall ==
    /\ link.called
    /\ ~Contains(link.page, Slash)
    /\ ~StartsWith(link.href, Slash)
    /\ SchemeEnd(link.href) = 0

\* C21: a page-relative href on a page of the root directory is resolved
\* with the standard resolution of '.' and '..': the path handed to the
\* existence check starts with '/', has no '.' or '..' segment, names the
\* same place as the standard resolution from the root, and the check is
\* decided by the files below the root directory alone
C21_RootPageResolution ==
    RootRelativeCall =>
        /\ StartsWith(link.abs, Slash)
        /\ \A i \in 1..Len(Split(link.abs, "/")) : Split(link.abs, "/")[i] \notin {Dot, DotDot}
        /\ clean_path(link.abs) = RootResolve(StripQueryFragment(link.href))
              \/ (RootResolve(StripQueryFragment(link.href)) # Slash
                  /\ clean_path(link.abs) \o Slash = RootResolve(StripQueryFragment(link.href)))
        /\ link.exists <=> FileBacked(site.disk, RootResolve(StripQueryFragment(link.href)))

\* index.html links to ../a while a.html lies beside the root directory,
\* not in it: the href resolves to /a, which does not exist
C21_Witness ==
    /\ link.called
    /\ link.page = IndexHtml
    /\ link.href = <<".", ".", "/", "a">>
    /\ link.abs = <<"/", "a">>
    /\ site.disk = MkDisk({IndexHtml}, {<<PA>>})
    /\ ~link.exists

\* the URLs whose work item waits in the queue of the executor
Queued == {pool.queue[i] : i \in 1..Len(pool.queue)}

\* the number of anchors of the selected pages whose href is the URL
AnchorsTo(u) ==
    Cardinality(UNION {{<<i, j>> : j \in {m \in 1..Len(site.content[html_files[i]].anchors) :
                                             site.content[html_files[i]].anchors[m] = u}}
                       : i \in 1..Len(html_files)})

\* C22: every distinct external URL is probed once per run, however many
\* anchors name it: a submitted URL is in exactly one of the stages queued,
\* running and finished, and is queued once; a probe sends one HEAD
\* request and one GET request more exactly if HEAD was answered with
\* status 405, and no other status or failure makes it send a second one
C22_ProbedOnce ==
    /\ \A i, j \in 1..Len(pool.queue) : i # j => pool.queue[i] # pool.queue[j]
    /\ Queued \cap pool.running = {}
    /\ Queued \cap DOMAIN pool.futures = {}
    /\ pool.running \cap DOMAIN pool.futures = {}
    /\ Queued \cup pool.running \cup DOMAIN pool.futures = pool.submitted
    /\ Created => pool.submitted \subseteq AR.external_links
    /\ pool.in_get \subseteq pool.running
    /\ \A u \in pool.in_get :
          site.net[u].head.raises = "" /\ site.net[u].head.status = 405
    /\ \A u \in DOMAIN pool.futures :
          pool.futures[u].requests =
              IF site.net[u].head.raises = "" /\ site.net[u].head.status = 405
              THEN <<"HEAD", "GET">> ELSE <<"HEAD">>

\* two anchors name the same URL, which was answered 404 to its one HEAD
\* request and is reported once
C22_Witness ==
    /\ Created /\ pc = "done"
    /\ AR.external_links = {UrlE}
    /\ AnchorsTo(UrlE) = 2
    /\ site.net[UrlE] = R404
    /\ pool.futures[UrlE].requests = <<"HEAD">>
    /\ Len(dead_links) = 1

\* C23: during the external check at most max_workers probes are in
\* flight, whatever the number of submitted URLs; a probe is in flight
\* from the step on which a worker takes its work item to the step on which
\* its future is set, the wait for the HEAD answer and the wait for the GET
\* answer after a 405 included; a probe in flight belongs to a submitted
\* URL that has no future yet and is not queued
C23_BoundedPool ==
    /\ Cardinality(pool.running) <= max_workers
    /\ pool.in_get \subseteq pool.running
    /\ pool.running \subseteq pool.submitted
    /\ pool.running \cap DOMAIN pool.futures = {}
    /\ pool.running \cap Queued = {}
    /\ pool.running # {} => pc = "external"

\* the pool is full, one of its workers waiting for the answer to GET after
\* a 405 and another for the answer to HEAD, while a further submitted URL
\* waits in the queue
C23_Witness ==
    /\ pc = "external"
    /\ Cardinality(pool.running) = max_workers
    /\ pool.in_get # {}
    /\ pool.in_get # pool.running
    /\ Cardinality(pool.submitted) > max_workers
    /\ pool.queue # <<>>

\* a step of a worker thread: a probe starts, one of its requests ends
WorkerStep ==
    pool'.running # pool.running \/ pool'.in_get # pool.in_get \/ pool'.futures # pool.futures

\* the external URLs of the run whose probe has a dead outcome
DeadOutcomes == {u \in AR.external_links : NetDead(site.net[u])}

\* C24: during the external check the dead-link list and the AuditResult
\* are written by the main thread only, one append at a time: a step of a
\* worker thread (a work item taken, a HEAD or a GET request ended) leaves
\* both unchanged, every step leaves dead_links as
\* it is or appends one entry to it, the AuditResult does not change
\* before check_all has returned, and when check_all returns dead_links
\* holds every URL with a dead outcome once, in any order of completion
C24_SerializedWrites ==
    [][/\ WorkerStep =>
            dead_links' = dead_links /\ audit_result' = audit_result /\ applied' = applied
       /\ pc = "external" =>
            /\ audit_result' = audit_result /\ applied' = applied
            /\ \/ dead_links' = dead_links
               \/ /\ Len(dead_links') = Len(dead_links) + 1
                  /\ SubSeq(dead_links', 1, Len(dead_links)) = dead_links
       /\ pc = "external" /\ pc' # "external" =>
            /\ DeadUrls' = DeadOutcomes
            /\ Len(dead_links') = Cardinality(DeadOutcomes)]_vars

\* one dead outcome is in dead_links, another probe has ended dead and is
\* not yet collected, and a third probe is in flight, between its HEAD
\* answer of 405 and its GET answer
C24_Witness ==
    /\ pc = "external"
    /\ Len(dead_links) = 1
    /\ pool.in_get # {}
    /\ \E u \in (DOMAIN pool.futures) \ pool.yielded :
          /\ NetDead(site.net[u])
          /\ u \notin DeadUrls

\* the entry of dead_links that the answers to the probe of u alone call for
DeadEntry(u) ==
    LET Of(resp) ==
            IF resp.head.raises = "RequestException" THEN [status |-> 999, reason |-> ""]
            ELSE IF resp.head.raises # "" THEN [status |-> 0, reason |-> resp.head.raises]
            ELSE IF resp.head.status # 405 THEN [status |-> resp.head.status, reason |-> ""]
            ELSE IF resp.get.raises = "RequestException" THEN [status |-> 999, reason |-> ""]
            ELSE IF resp.get.raises # "" THEN [status |-> 0, reason |-> resp.get.raises]
            ELSE [status |-> resp.get.status, reason |-> ""]
    IN  [url |-> u, status |-> Of(site.net[u]).status, reason |-> Of(site.net[u]).reason]

\* a probe of the run failed: a transport failure or another exception
SomeProbeFailed ==
    \E u \in AR.external_links :
        site.net[u].head.raises # ""
        \/ (site.net[u].head.status = 405 /\ site.net[u].get.raises # "")

\* C25: a probe that fails, by a transport failure or by any other
\* exception, gives a dead outcome for its own URL and nothing else: the
\* run does not end by the exception, and when check_all has returned every
\* external URL has the entry in dead_links that its own answers call
\* for, dead URLs once and live URLs not at all, whatever the other
\* probes did
C25_FailureStaysWithItsUrl ==
    /\ Created => pc # "exit"
    /\ (Created /\ Returned /\ AR.external_links # {}) =>
          /\ \A u \in AR.external_links :
                Cardinality({i \in 1..Len(dead_links) : dead_links[i].url = u})
                    = (IF NetDead(site.net[u]) THEN 1 ELSE 0)
          /\ \A i \in 1..Len(dead_links) :
                /\ dead_links[i].url \in AR.external_links
                /\ dead_links[i] = DeadEntry(dead_links[i].url)

\* the probe of http://e raised an exception, that of http://g had a
\* transport failure on its GET request, and http://f is not reported
C25_Witness ==
    /\ Created /\ pc = "done"
    /\ site.net[UrlE] = RRaise /\ site.net[UrlF] = R200 /\ site.net[UrlG] = R405fail
    /\ DeadUrls = {UrlE, UrlG}
    /\ SomeProbeFailed
    /\ Count(AR.errors, "Dead External Link") = 2

\* q continues p: p is a prefix of q
Extends(q, p) == Len(q) >= Len(p) /\ SubSeq(q, 1, Len(p)) = p

\* C26: after the last page is scanned, in the orphan loop, the external
\* check and the loop over the dead external links, inbound_links,
\* external_links and pages_scanned do not change; a lookup of a missing
\* key adds no key; only errors and warnings, which grow, and the score
\* change
C26_FrozenAfterScan ==
    [][(pc \in {"orphan", "external", "report", "done"} /\ audit_result' # <<>>) =>
          /\ AR'.inbound_links = AR.inbound_links
          /\ AR'.external_links = AR.external_links
          /\ AR'.pages_scanned = AR.pages_scanned
          /\ AR'.infos = AR.infos
          /\ Extends(AR'.errors, AR.errors)
          /\ Extends(AR'.warnings, AR.warnings)]_vars

\* a finished run that flagged a page whose forms are no key of
\* inbound_links, and that reported a dead external link, with the counts
\* of the scan in place
C26_Witness ==
    /\ Created /\ pc = "done"
    /\ AR.pages_scanned = Len(html_files)
    /\ DOMAIN AR.inbound_links # {}
    /\ \E i \in 1..Len(html_files) :
          /\ Flagged(html_files[i])
          /\ AcceptedForms(html_files[i]) \cap DOMAIN AR.inbound_links = {}
    /\ AR.external_links # {}
    /\ Count(AR.errors, "Dead External Link") >= 1

\* the anchors processed so far that process_internal_link has handled
\* to its end, as pairs of page position and anchor position
InternalOccurrences ==
    UNION {{<<i, j>> : j \in {m \in 1..ProcessedSoFar(i) :
                                 LinkLocals(site.disk, base_url, html_files[i],
                                            site.content[html_files[i]].anchors[m]).called}}
           : i \in 1..Len(html_files)}

\* the sum of the counts of inbound_links
RECURSIVE InboundTotal(_, _)
InboundTotal(r, keys) ==
    IF keys = {} THEN 0
    ELSE LET p == CHOOSE x \in keys : TRUE
         IN  r.inbound_links[p] + InboundTotal(r, keys \ {p})

\* C27: an internal anchor that process_internal_link handles has one of
\* two effects, a Dead Internal Link error or an increment by one of one
\* key of inbound_links: the sum of the inbound counts plus the number of
\* Dead Internal Link errors is the number of internal anchors handled,
\* the step that handles one changes one of the two by one, and every
\* key has a count of at least 1 and passes the existence check
C27_DeadOrCounted ==
    Created =>
        /\ InboundTotal(AR, DOMAIN AR.inbound_links) + Count(AR.errors, "Dead Internal Link")
              = Cardinality(InternalOccurrences)
        /\ \A p \in DOMAIN AR.inbound_links :
              /\ AR.inbound_links[p] >= 1
              /\ check_local_file_exists(site.disk, p)
        /\ (link.called /\ link.exists) => InboundGet(AR, clean_path(link.abs)) >= 1
        /\ (link.called /\ ~link.exists) =>
              \E i \in 1..Len(AR.errors) :
                  /\ AR.errors[i].kind = "Dead Internal Link"
                  /\ AR.errors[i].page = link.page /\ AR.errors[i].abs = link.abs

\* a finished scan that handled two internal anchors: one is counted as
\* an inbound link and the other is reported dead
C27_Witness ==
    /\ Created /\ pc = "done"
    /\ Cardinality(InternalOccurrences) = 2
    /\ Count(AR.errors, "Dead Internal Link") = 1
    /\ InboundTotal(AR, DOMAIN AR.inbound_links) = 1

\* the page has a handled anchor that resolves to one of its own accepted
\* forms and passes the existence check
SelfLinked(i) ==
    \E j \in 1..ProcessedSoFar(i) :
        LET Own(l) == l.called /\ l.exists /\ clean_path(l.abs) \in AcceptedForms(html_files[i])
        IN  Own(LinkLocals(site.disk, base_url, html_files[i],
                           site.content[html_files[i]].anchors[j]))

\* C28: a link from a page to itself counts as an inbound link: a page
\* other than the root index with an anchor that resolves to one of its own
\* accepted forms is not flagged orphan
C28_SelfLinkCounts ==
    (Created /\ pc \in {"orphan", "external", "report", "done"}) =>
        \A i \in 1..Len(html_files) :
            (html_files[i] # IndexHtml /\ SelfLinked(i)) => ~Flagged(html_files[i])

\* the same for the pages that are not named like xindex.html and have no
\* backslash in their name
C28_SelfLinkCountsElsewhere ==
    (Created /\ pc \in {"orphan", "external", "report", "done"}) =>
        \A i \in 1..Len(html_files) :
            (/\ html_files[i] \notin {IndexHtml, PXIndex}
             /\ ~Contains(html_files[i], <<"\\">>)
             /\ SelfLinked(i))
                => ~Flagged(html_files[i])

\* a page that links to itself and to nothing else, judged by the orphan
\* loop and not flagged
C28_SelfLinkedJudged ==
    /\ Created /\ pc = "done"
    /\ \E i \in 1..Len(html_files) :
          /\ html_files[i] # IndexHtml /\ SelfLinked(i)
          /\ DOMAIN AR.inbound_links \subseteq AcceptedForms(html_files[i])
          /\ ~Flagged(html_files[i])

\* the step records the failure of a page
FailureStep ==
    Count(AR'.errors, "Failed to process") > Count(AR.errors, "Failed to process")

\* C29: nothing is rolled back when a page fails part-way.  No step of a
\* run removes or changes a recorded error or warning, lowers an inbound
\* count, removes an external URL, lowers pages_scanned or gives points
\* back; the step on which a page fails appends the Failed to process
\* error, leaves pages_scanned as it is, and takes no points for the
\* error: the penalties applied on that step are those of the warnings
\* recorded on it
C29_NothingRolledBack ==
    [][(Created /\ audit_result' # <<>>) =>
          /\ Extends(AR'.errors, AR.errors)
          /\ Extends(AR'.warnings, AR.warnings)
          /\ \A p \in DOMAIN AR.inbound_links :
                p \in DOMAIN AR'.inbound_links /\ AR'.inbound_links[p] >= AR.inbound_links[p]
          /\ AR.external_links \subseteq AR'.external_links
          /\ AR'.pages_scanned >= AR.pages_scanned
          /\ AR'.score <= AR.score /\ applied' >= applied
          /\ FailureStep =>
                /\ AR'.pages_scanned = AR.pages_scanned
                /\ AR'.inbound_links = AR.inbound_links
                /\ AR'.external_links = AR.external_links
                /\ Len(AR'.errors) = Len(AR.errors) + 1
                /\ AR'.errors[Len(AR'.errors)].kind = "Failed to process"
                /\ applied' = applied + PenaltySum(SubSeq(AR'.warnings, Len(AR.warnings) + 1,
                                                          Len(AR'.warnings)))]_vars

\* index.html failed at its fourth anchor: the errors and warnings, the
\* inbound link and the external URL recorded from it before are in the
\* result of the finished run, with their penalties, and only a.html counts
\* as scanned
C29_Witness ==
    /\ Created /\ pc = "done"
    /\ ErrorsAbout("Failed to process", IndexHtml) = 1
    /\ ErrorsAbout("Missing H1 tag", IndexHtml) = 1
    /\ ErrorsAbout("Dead Internal Link", IndexHtml) = 1
    /\ \E i \in 1..Len(AR.warnings) :
          AR.warnings[i].kind = "No Schema (JSON-LD) found" /\ AR.warnings[i].page = IndexHtml
    /\ InboundGet(AR, <<"/", "a">>) = 1
    /\ UrlE \in AR.external_links
    /\ AR.pages_scanned = 1 /\ Len(html_files) = 2
    /\ AR.score = 100 - (5 + 2 + 2 + 2 + 10)

\* the .html files of the site whose name contains a string of IGNORE_FILES
IgnoredPages ==
    {p \in HtmlPages(site.disk) : \E ig \in IGNORE_FILES : Contains(Basename(p), ig)}

\* the hrefs of the anchors of the selected pages
SelectedHrefs ==
    UNION {{site.content[html_files[i]].anchors[j]
               : j \in 1..Len(site.content[html_files[i]].anchors)}
           : i \in 1..Len(html_files)}

\* the keys that the anchors of the selected pages can be counted under
SelectedTargets ==
    UNION {{clean_path(LinkLocals(site.disk, base_url, html_files[i],
                                  site.content[html_files[i]].anchors[j]).abs)
               : j \in 1..Len(site.content[html_files[i]].anchors)}
           : i \in 1..Len(html_files)}

\* a message of the result is about the page
Mentions(rel_path) ==
    \/ \E i \in 1..Len(AR.errors) : AR.errors[i].page = rel_path
    \/ \E i \in 1..Len(AR.warnings) : AR.warnings[i].page = rel_path

\* C30: a file whose name contains a string of IGNORE_FILES, such as
\* 404.html, is not selected for the scan, no error or warning, the orphan
\* warning included, is about it, and its anchors add nothing to
\* inbound_links or external_links; yet an internal link that resolves to
\* it passes the existence check and is counted as an inbound link, not
\* reported dead
C30_IgnoredFileStillATarget ==
    (Created /\ IgnoredPages # {}) =>
        /\ \A i \in 1..Len(html_files) : html_files[i] \notin IgnoredPages
        /\ \A p \in IgnoredPages : ~Mentions(p)
        /\ AR.external_links \subseteq SelectedHrefs
        /\ DOMAIN AR.inbound_links \subseteq SelectedTargets
        /\ \A p \in IgnoredPages :
              (link.called /\ clean_path(link.abs) \in AcceptedForms(p)) =>
                  /\ link.exists
                  /\ InboundGet(AR, clean_path(link.abs)) >= 1
                  /\ \A i \in 1..Len(AR.errors) :
                        AR.errors[i].kind = "Dead Internal Link" => AR.errors[i].abs # link.abs

\* 404.html links to a.html and to an external URL and is the target of
\* the one link of index.html: the run scanned two pages, counted /404 once,
\* collected no external URL and flagged a.html, which only 404.html links to
C30_Witness ==
    /\ Created /\ pc = "done"
    /\ P404 \in IgnoredPages
    /\ site.content[P404].anchors = <<<<"/", "a">>, UrlE>>
    /\ Len(html_files) = 2 /\ AR.pages_scanned = 2
    /\ AR.inbound_links = (<<"/", "4", "0", "4">> :> 1)
    /\ AR.external_links = {}
    /\ AR.errors = <<>>
    /\ Flagged(PA)

====
